---- MODULE Spec2Model ----
(***************************************************************************)
(* The live conversation controller of the VIREL front end                 *)
(* (components/LiveConversationFeature.tsx), the live transport it drives  *)
(* (GeminiService.connectLiveSession) and the global loading counter       *)
(* (contexts/LoadingContext.tsx), as one state machine.                    *)
(*                                                                         *)
(* Every handler of the component is one action.  The browser runs them    *)
(* on one event loop: a handler runs to completion, and the continuation   *)
(* of an await on an already settled promise (the audio decode of          *)
(* onmessage) runs as a microtask before any other task, which the model   *)
(* keeps by enabling nothing but that continuation while it is pending.    *)
(* Each call of startRecording is a "start" s in 1..MaxStarts with its own *)
(* microphone stream, audio contexts, capture node and transport; the      *)
(* component's refs hold the number of the start whose object they point   *)
(* to, or Null.                                                            *)
(***************************************************************************)
EXTENDS Integers, Sequences, FiniteSets, TLC

\* ---------------------------------------------------------------- bounds
MaxStarts == 2          \* calls of startRecording in one behaviour
MaxChunks == 3          \* audio chunks scheduled in one behaviour
MaxSessionChunks == 2   \* audio chunks scheduled when messages of every kind arrive
MaxOverlapChunks == 1   \* audio chunks scheduled when two starts can overlap
MaxClock == 2           \* largest reading of a playback clock
MaxDuration == 2        \* longest audio buffer
MaxHistory == 2         \* entries of transcriptionHistory
MaxInputLen == 5        \* characters of the running user transcript
MaxOutputLen == 8       \* characters of the running model transcript
MaxSamples == 2         \* samples of one captured frame
SubSteps == 2           \* sample values told apart within one step of the 16-bit scale
Window == 3             \* steps of the 16-bit scale taken around -1, 0 and 1
OverWindow == 1         \* steps of the 16-bit scale taken around -2, -1, 0, 1 and 2
MaxPolls == 2           \* polls of one video operation
MaxGenerations == 2     \* calls of handleGenerateVideo in one behaviour
MaxChatCalls == 4       \* calls of handleSendMessage in one behaviour
MaxCalls == 3           \* provider calls of the other request features in one behaviour

Null == 0
Starts == 1..MaxStarts
NORMAL_CLOSURE == 1000                 \* the close code onclose treats as normal
CloseCodes == {NORMAL_CLOSURE, 1006}
InputDeltas == {"hello"}               \* inputTranscription.text values
OutputDeltas == {"hi there"}           \* outputTranscription.text values
NoText == "-"                          \* the field is absent from the message
NotAwaiting == [start |-> Null, duration |-> 0, interrupted |-> FALSE]
USER == "user"
MODEL == "model"

\* A handler that sent no audio, discarded no transcript and was given no close
\* code.
Quiet == [node |-> Null, sentTo |-> Null, discarded |-> FALSE, code |-> Null]

VARIABLES
    mounted,                      \* the component is mounted
    isRecording,
    currentInputTranscription,
    currentOutputTranscription,
    transcriptionHistory,
    statusMessage,
    error,
    sessionRef,
    streamRef,
    inputAudioContextRef,
    outputAudioContextRef,
    scriptProcessorRef,
    nextStartTimeRef,
    sourcesRef,                   \* set of indices into sources
    activeRequests,               \* LoadingProvider's counter
    startPc,                      \* position of each startRecording call
    closure,                      \* the transcripts each start's callbacks captured
    stream,                       \* per start: its MediaStream
    inputCtx,                     \* per start: its capture AudioContext
    processor,                    \* per start: its ScriptProcessorNode
    onaudioprocess,               \* per start: the start whose onopen wired the node, or Null
    outputCtx,                    \* per start: the playback AudioContext of connectLiveSession
    ws,                           \* per start: the transport session
    closeCalls,                   \* per start: calls of session.close()
    currentTime,                  \* per start: last reading of outputCtx.currentTime
    sources,                      \* every AudioBufferSourceNode created, in order
    awaiting,                     \* the onmessage continuation pending after the decode
    uncaught,                     \* exception the last handler left uncaught
    stopsInRow,                   \* stopRecording calls in a row, nothing else run between (at most 2)
    observed,                     \* what the last handler did that the state does not keep
    \* the PCM helpers of the service (createPcmBlob, decode, decodeAudioData)
    samples,                      \* the Float32Array given to createPcmBlob
    pcmPc,                        \* how far the frame has gone through the helpers
    blob,                         \* the data of the blob createPcmBlob returned
    decoded,                      \* channel 0 of the AudioBuffer decodeAudioData returned
    \* the video feature (VideoGenerationFeature) and the call of generateVideoFrom*
    apiKeySelected,
    videoIsLoading,
    videoError,
    generatedVideoUrl,
    loadingMessage,
    videoPc,                      \* position of the call of handleGenerateVideo
    operation,                    \* the operation the call last observed
    timer,                        \* delay of the pending setTimeout, or Null
    polls,                        \* calls of getVideosOperation
    requests,                     \* requests the calls have issued
    generations,                  \* calls of handleGenerateVideo that got past its checks
    \* the chat feature (ChatFeature)
    messages,
    input,
    chatIsLoading,                \* isLoading of ChatFeature
    chatPending,                  \* the calls of geminiService.sendMessage in flight, oldest first
    chatCalls,                    \* calls of handleSendMessage
    \* the tab of App and the feature it mounts, one of ImageGenerationFeature,
    \* ContentAnalysisFeature, GroundingFeature, TTSFeature, GeminiPlaygroundFeature
    activeTab,
    featureIsLoading,             \* isLoading of the mounted feature
    featureError,                 \* error of the mounted feature
    featureResult,                \* the image URL, response, analysis or audio source it holds
    featurePc,                    \* the await its handler is at, "idle" when none runs
    searchType,
    userLocation,                 \* whether GroundingFeature holds a location
    locationLoading,
    orphans,                      \* handlers of unmounted features that will call decrementLoading
    calls                         \* provider calls issued by the features

vars == <<mounted, isRecording, currentInputTranscription, currentOutputTranscription,
          transcriptionHistory, statusMessage, error, sessionRef, streamRef,
          inputAudioContextRef, outputAudioContextRef, scriptProcessorRef,
          nextStartTimeRef, sourcesRef, activeRequests, startPc, closure, stream,
          inputCtx, processor, onaudioprocess, outputCtx, ws, closeCalls, currentTime,
          sources, awaiting, uncaught, stopsInRow, observed,
          samples, pcmPc, blob, decoded,
          apiKeySelected, videoIsLoading, videoError, generatedVideoUrl, loadingMessage,
          videoPc, operation, timer, polls, requests, generations,
          messages, input, chatIsLoading, chatPending, chatCalls,
          activeTab, featureIsLoading, featureError, featureResult, featurePc, searchType,
          userLocation, locationLoading, orphans, calls>>

codecVars == <<samples, pcmPc, blob, decoded>>

videoVars == <<apiKeySelected, videoIsLoading, videoError, generatedVideoUrl, loadingMessage,
               videoPc, operation, timer, polls, requests, generations>>

\* The state of the conversation feature but for the loading counter.
conversationVars ==
    <<mounted, isRecording, currentInputTranscription, currentOutputTranscription,
      transcriptionHistory, statusMessage, error, sessionRef, streamRef,
      inputAudioContextRef, outputAudioContextRef, scriptProcessorRef,
      nextStartTimeRef, sourcesRef, startPc, closure, stream, inputCtx, processor,
      onaudioprocess, outputCtx, ws, closeCalls, currentTime, sources, awaiting,
      uncaught, stopsInRow, observed>>

chatVars == <<messages, input, chatIsLoading, chatPending, chatCalls>>

featureVars == <<activeTab, featureIsLoading, featureError, featureResult, featurePc, searchType,
                 userLocation, locationLoading, orphans, calls>>

\* What a handler of the conversation feature cannot touch.
elsewhere == <<codecVars, videoVars, chatVars, featureVars>>

\* What the PCM helpers cannot touch.
beyondCodec == <<conversationVars, activeRequests, videoVars, chatVars, featureVars>>

\* What the video feature cannot touch.
beyondVideo == <<conversationVars, codecVars, chatVars, featureVars>>

\* What the chat feature cannot touch.
beyondChat == <<conversationVars, activeRequests, codecVars, videoVars, featureVars>>

\* What the other request features cannot touch.
beyondFeature == <<conversationVars, codecVars, videoVars, chatVars>>

\* ------------------------------------------------------------- helpers
Max(a, b) == IF a >= b THEN a ELSE b

\* A React state setter: ignored once the component is unmounted.
SetState(old, new) == IF mounted THEN new ELSE old

\* One release call (stop / disconnect / close) on an object of the browser.
Release(st) ==
    CASE st = "live" -> "released"
      [] st = "released" -> "releasedTwice"
      [] OTHER -> st

\* session.close() as the transport sees it.
CloseSession(st) == IF st \in {"connecting", "open"} THEN "closing" ELSE st

\* source.stop() on one AudioBufferSourceNode.
StopSource(src) == IF src.state = "playing" THEN [src EXCEPT !.state = "stopped"] ELSE src

\* No continuation of an await on a settled promise is pending: neither the
\* rest of onmessage after the decode, nor the rest of startRecording after the
\* connection that has just opened (the transport resolves the promise of
\* connect in the microtasks that follow its onopen callback).
NoMicrotask ==
    /\ awaiting = NotAwaiting
    /\ \A s \in Starts : startPc[s] # "resolving"

increment(n) == n + 1
decrementUnclamped(n) == n - 1

decrement(n) == Max(0, n - 1)

InitConversation ==
    /\ mounted = TRUE
    /\ isRecording = FALSE
    /\ currentInputTranscription = ""
    /\ currentOutputTranscription = ""
    /\ transcriptionHistory = <<>>
    /\ statusMessage = "Click to start conversation"
    /\ error = "null"
    /\ sessionRef = Null
    /\ streamRef = Null
    /\ inputAudioContextRef = Null
    /\ outputAudioContextRef = Null
    /\ scriptProcessorRef = Null
    /\ nextStartTimeRef = 0
    /\ sourcesRef = {}
    /\ startPc = [s \in Starts |-> "idle"]
    /\ closure = [s \in Starts |-> [input |-> "", output |-> ""]]
    /\ stream = [s \in Starts |-> "none"]
    /\ inputCtx = [s \in Starts |-> "none"]
    /\ processor = [s \in Starts |-> "none"]
    /\ onaudioprocess = [s \in Starts |-> Null]
    /\ outputCtx = [s \in Starts |-> "none"]
    /\ ws = [s \in Starts |-> "none"]
    /\ closeCalls = [s \in Starts |-> 0]
    /\ currentTime = [s \in Starts |-> 0]
    /\ sources = <<>>
    /\ awaiting = NotAwaiting
    /\ uncaught = "none"
    /\ stopsInRow = 0
    /\ observed = Quiet

\* No frame is going through the PCM helpers.
InitCodecIdle ==
    /\ samples = <<>>
    /\ pcmPc = "idle"
    /\ blob = <<>>
    /\ decoded = <<>>

NoOperation == [done |-> FALSE, uri |-> FALSE]

\* The video feature as mounted (part_000 lines 14-23).
InitVideoIdle ==
    /\ apiKeySelected = FALSE
    /\ videoIsLoading = FALSE
    /\ videoError = "null"
    /\ generatedVideoUrl = "null"
    /\ loadingMessage = ""
    /\ videoPc = "idle"
    /\ operation = NoOperation
    /\ timer = Null
    /\ polls = 0
    /\ requests = 0
    /\ generations = 0

INFO == "info"
ERROR == "error"
WELCOME == "Welcome to the VIREL Chat!"

\* The chat feature once its mount effect has added the welcome message
\* (ChatFeature.tsx lines 10-12 and 30-32).
InitChatIdle ==
    /\ messages = <<[type |-> INFO, text |-> WELCOME]>>
    /\ input = ""
    /\ chatIsLoading = FALSE
    /\ chatPending = <<>>
    /\ chatCalls = 0

\* A request feature as mounted, before its mount effect (lines 10-14 of
\* ImageGenerationFeature.tsx, 10-19 of GroundingFeature.tsx), and nothing
\* left over from another one.
InitFeatureIdle ==
    /\ featureIsLoading = FALSE
    /\ featureError = "null"
    /\ featureResult = "null"
    /\ featurePc = "idle"
    /\ searchType = "search"
    /\ userLocation = FALSE
    /\ locationLoading = FALSE
    /\ orphans = 0
    /\ calls = 0

Init ==
    /\ InitConversation
    /\ activeRequests = 0
    /\ InitCodecIdle
    /\ InitVideoIdle
    /\ InitChatIdle
    /\ InitFeatureIdle
    /\ activeTab = "live-conversation"

\* ------------------------------------------------------- stopRecording
\* The refs and the objects behind them, as a handler sees them when it calls
\* stopRecording.
Cur == [sessionRef |-> sessionRef, streamRef |-> streamRef,
        inputAudioContextRef |-> inputAudioContextRef,
        outputAudioContextRef |-> outputAudioContextRef,
        scriptProcessorRef |-> scriptProcessorRef,
        stream |-> stream, inputCtx |-> inputCtx, processor |-> processor,
        outputCtx |-> outputCtx, ws |-> ws]

ReleaseAt(handles, ref) == IF ref # Null THEN [handles EXCEPT ![ref] = Release(@)] ELSE handles

StoppedSources == [i \in DOMAIN sources |->
                      [(IF i \in sourcesRef THEN StopSource(sources[i]) ELSE sources[i])
                          EXCEPT !.fresh = FALSE]]

\* Lines 69-88 of stopRecording on the state c: each handle the refs hold is
\* released once and its ref set to null.
ReleaseHandlesKeepingStreamRef(c) ==
    /\ ws' = IF c.sessionRef # Null THEN [c.ws EXCEPT ![c.sessionRef] = CloseSession(@)] ELSE c.ws
    /\ closeCalls' = IF c.sessionRef # Null
                       THEN [closeCalls EXCEPT ![c.sessionRef] = IF @ < 2 THEN @ + 1 ELSE @]
                       ELSE closeCalls
    /\ sessionRef' = Null
    /\ processor' = ReleaseAt(c.processor, c.scriptProcessorRef)
    /\ scriptProcessorRef' = Null
    /\ stream' = ReleaseAt(c.stream, c.streamRef)
    /\ streamRef' = c.streamRef
    /\ inputCtx' = ReleaseAt(c.inputCtx, c.inputAudioContextRef)
    /\ inputAudioContextRef' = Null
    /\ outputCtx' = ReleaseAt(c.outputCtx, c.outputAudioContextRef)
    /\ outputAudioContextRef' = Null

ReleaseHandlesKeepingSessionRef(c) ==
    /\ ws' = IF c.sessionRef # Null THEN [c.ws EXCEPT ![c.sessionRef] = CloseSession(@)] ELSE c.ws
    /\ closeCalls' = IF c.sessionRef # Null
                       THEN [closeCalls EXCEPT ![c.sessionRef] = IF @ < 2 THEN @ + 1 ELSE @]
                       ELSE closeCalls
    /\ sessionRef' = c.sessionRef
    /\ processor' = ReleaseAt(c.processor, c.scriptProcessorRef)
    /\ scriptProcessorRef' = Null
    /\ stream' = ReleaseAt(c.stream, c.streamRef)
    /\ streamRef' = Null
    /\ inputCtx' = ReleaseAt(c.inputCtx, c.inputAudioContextRef)
    /\ inputAudioContextRef' = Null
    /\ outputCtx' = ReleaseAt(c.outputCtx, c.outputAudioContextRef)
    /\ outputAudioContextRef' = Null

ReleaseHandles(c) ==
    /\ ws' = IF c.sessionRef # Null THEN [c.ws EXCEPT ![c.sessionRef] = CloseSession(@)] ELSE c.ws
    /\ closeCalls' = IF c.sessionRef # Null
                       THEN [closeCalls EXCEPT ![c.sessionRef] = IF @ < 2 THEN @ + 1 ELSE @]
                       ELSE closeCalls
    /\ sessionRef' = Null
    /\ processor' = ReleaseAt(c.processor, c.scriptProcessorRef)
    /\ scriptProcessorRef' = Null
    /\ stream' = ReleaseAt(c.stream, c.streamRef)
    /\ streamRef' = Null
    /\ inputCtx' = ReleaseAt(c.inputCtx, c.inputAudioContextRef)
    /\ inputAudioContextRef' = Null
    /\ outputCtx' = ReleaseAt(c.outputCtx, c.outputAudioContextRef)
    /\ outputAudioContextRef' = Null

\* Line 197: the floor after an interruption.
InterruptedFloorKept == nextStartTimeRef

InterruptedFloor == 0

\* stopRecording(resetError) (lines 67-99), called from the state c with the
\* error message err the calling handler has set so far.
stopRecording(resetError, err, c) ==
    /\ isRecording' = SetState(isRecording, FALSE)
    /\ ReleaseHandles(c)
    /\ sources' = StoppedSources
    /\ sourcesRef' = {}
    /\ nextStartTimeRef' = 0
    /\ currentInputTranscription' = SetState(currentInputTranscription, "")
    /\ currentOutputTranscription' = SetState(currentOutputTranscription, "")
    /\ error' = SetState(error, IF resetError THEN "null" ELSE err)
    /\ statusMessage' = SetState(statusMessage, "Conversation ended.")
    /\ stopsInRow' = IF c.stream # stream THEN 1     \* the caller acquired a stream first
                   ELSE IF stopsInRow < 2 THEN stopsInRow + 1 ELSE 2
    /\ uncaught' = "none"

\* ------------------------------------------------------ startRecording
NextStart == CHOOSE s \in Starts : startPc[s] = "idle" /\ \A r \in Starts : r < s => startPc[r] # "idle"

\* Lines 110-115: up to the await of getUserMedia.
startRecording ==
    /\ \E s \in Starts : startPc[s] = "idle"
    /\ LET s == NextStart IN
       /\ startPc' = [startPc EXCEPT ![s] = "getUserMedia"]
       /\ closure' = [closure EXCEPT ![s] = [input |-> currentInputTranscription,
                                             output |-> currentOutputTranscription]]
    /\ error' = SetState(error, "null")
    /\ statusMessage' = SetState(statusMessage, "Starting...")
    /\ activeRequests' = increment(activeRequests)
    /\ uncaught' = "none"
    /\ stopsInRow' = 0
    /\ observed' = Quiet
    /\ UNCHANGED <<mounted, isRecording, currentInputTranscription, currentOutputTranscription,
                   transcriptionHistory, sessionRef, streamRef, inputAudioContextRef,
                   outputAudioContextRef, scriptProcessorRef, nextStartTimeRef, sourcesRef,
                   stream, inputCtx, processor, onaudioprocess, outputCtx, ws, closeCalls,
                   currentTime, sources, awaiting>>

\* Lines 239-245: the click on the record button.
handleToggleRecording ==
    /\ UNCHANGED elsewhere
    /\ mounted
    /\ NoMicrotask
    /\ IF isRecording
         THEN /\ stopRecording(TRUE, error, Cur)
              /\ observed' = Quiet
              /\ UNCHANGED <<mounted, transcriptionHistory, onaudioprocess, currentTime,
                             awaiting, activeRequests, startPc, closure>>
         ELSE startRecording

StartCatchClearingError(s, c) ==
    /\ startPc' = [startPc EXCEPT ![s] = "failed"]
    /\ activeRequests' = decrement(activeRequests)
    /\ stopRecording(TRUE, "Failed to start", c)
    /\ observed' = Quiet
    /\ UNCHANGED <<mounted, transcriptionHistory, onaudioprocess, currentTime, awaiting, closure>>

\* The catch block of startRecording (lines 230-236), entered from the state c.
StartCatch(s, c) ==
    /\ startPc' = [startPc EXCEPT ![s] = "failed"]
    /\ activeRequests' = decrement(activeRequests)
    /\ stopRecording(FALSE, "Failed to start", c)
    /\ observed' = Quiet
    /\ UNCHANGED <<mounted, transcriptionHistory, onaudioprocess, currentTime, awaiting, closure>>

\* getUserMedia rejects: permission denied or no device (line 115).
GetUserMediaReject(s) ==
    /\ UNCHANGED elsewhere
    /\ NoMicrotask
    /\ startPc[s] = "getUserMedia"
    /\ StartCatch(s, Cur)

\* The state after lines 115-127 have run for start s: its stream, capture
\* context and capture node are in the refs, whatever the refs held before.
Acquired(s, upTo) ==
    [Cur EXCEPT !.streamRef = s,
                !.stream = [stream EXCEPT ![s] = "live"],
                !.inputAudioContextRef = IF upTo = "stream" THEN @ ELSE s,
                !.inputCtx = IF upTo = "stream" THEN @ ELSE [inputCtx EXCEPT ![s] = "live"],
                !.scriptProcessorRef = IF upTo = "stream" THEN @ ELSE s,
                !.processor = IF upTo = "stream" THEN @ ELSE [processor EXCEPT ![s] = "live"]]

StartOutcomes == {"connecting", "AudioContext throws", "API_KEY is not defined"}

\* getUserMedia resolves and startRecording runs on to the await of
\* connectLiveSession (lines 115-224), or to its catch block when the capture
\* context cannot be created or getAiInstance throws.
GetUserMediaResolve(s, outcome) ==
    /\ UNCHANGED elsewhere
    /\ NoMicrotask
    /\ startPc[s] = "getUserMedia"
    /\ IF outcome = "connecting"
         THEN LET c == Acquired(s, "node") IN
              /\ startPc' = [startPc EXCEPT ![s] = "connect"]
              /\ streamRef' = s
              /\ inputAudioContextRef' = s
              /\ scriptProcessorRef' = s
              /\ stream' = c.stream
              /\ inputCtx' = c.inputCtx
              /\ processor' = c.processor
              /\ outputCtx' = [outputCtx EXCEPT ![s] = "live"]
              /\ ws' = [ws EXCEPT ![s] = "connecting"]
              /\ uncaught' = "none"
              /\ stopsInRow' = 0
              /\ observed' = Quiet
              /\ UNCHANGED <<mounted, isRecording, currentInputTranscription,
                             currentOutputTranscription, transcriptionHistory, statusMessage,
                             error, sessionRef, outputAudioContextRef, nextStartTimeRef,
                             sourcesRef, activeRequests, closure, onaudioprocess, closeCalls,
                             currentTime, sources, awaiting>>
         ELSE StartCatch(s, Acquired(s, IF outcome = "AudioContext throws" THEN "stream" ELSE "node"))

\* ai.live.connect rejects (LoadingBar.tsx line 388-394): the playback context
\* created at line 374 is dropped with the rejection.
ConnectReject(s) ==
    /\ UNCHANGED elsewhere
    /\ NoMicrotask
    /\ startPc[s] = "connect"
    /\ ws[s] = "connecting"
    /\ StartCatch(s, [Cur EXCEPT !.ws = [ws EXCEPT ![s] = "closed"]])

\* connectLiveSession resolves and startRecording runs to its end (lines
\* 224-229): the microtask that follows onopen.
ConnectResolve(s) ==
    /\ UNCHANGED elsewhere
    /\ awaiting = NotAwaiting
    /\ startPc[s] = "resolving"
    /\ startPc' = [startPc EXCEPT ![s] = "done"]
    /\ sessionRef' = s
    /\ outputAudioContextRef' = s
    /\ uncaught' = "none"
    /\ stopsInRow' = 0
    /\ observed' = Quiet
    /\ UNCHANGED <<mounted, isRecording, currentInputTranscription, currentOutputTranscription,
                   transcriptionHistory, statusMessage, error, streamRef, inputAudioContextRef,
                   scriptProcessorRef, nextStartTimeRef, sourcesRef, activeRequests, closure,
                   stream, inputCtx, processor, onaudioprocess, outputCtx, ws, closeCalls,
                   currentTime, sources, awaiting>>

onopenKeepingLoading(s) ==
    /\ UNCHANGED elsewhere
    /\ NoMicrotask
    /\ ws[s] = "connecting"
    /\ startPc[s] = "connect"
    /\ ws' = [ws EXCEPT ![s] = "open"]
    /\ statusMessage' = SetState(statusMessage, "Recording...")
    /\ isRecording' = SetState(isRecording, TRUE)
    /\ UNCHANGED activeRequests
    /\ IF scriptProcessorRef = Null
         THEN /\ uncaught' = "TypeError"
              /\ UNCHANGED onaudioprocess
              /\ startPc' \in {[startPc EXCEPT ![s] = "resolving"], [startPc EXCEPT ![s] = "hung"]}
         ELSE /\ uncaught' = "none"
              /\ onaudioprocess' = [onaudioprocess EXCEPT ![scriptProcessorRef] = s]
              /\ startPc' = [startPc EXCEPT ![s] = "resolving"]
    /\ stopsInRow' = 0
    /\ observed' = Quiet
    /\ UNCHANGED <<mounted, currentInputTranscription, currentOutputTranscription,
                   transcriptionHistory, error, sessionRef, streamRef, inputAudioContextRef,
                   outputAudioContextRef, scriptProcessorRef, nextStartTimeRef, sourcesRef,
                   closure, stream, inputCtx, processor, outputCtx, closeCalls, currentTime,
                   sources, awaiting>>

\* ----------------------------------------------------------- callbacks
\* onopen (lines 130-148).  Line 137 dereferences scriptProcessorRef.current:
\* when it is null the callback throws, and the transport, whose code calls the
\* callback, either resolves the promise of connect all the same or never does.
onopen(s) ==
    /\ UNCHANGED elsewhere
    /\ NoMicrotask
    /\ ws[s] = "connecting"
    /\ startPc[s] = "connect"
    /\ ws' = [ws EXCEPT ![s] = "open"]
    /\ statusMessage' = SetState(statusMessage, "Recording...")
    /\ isRecording' = SetState(isRecording, TRUE)
    /\ activeRequests' = decrement(activeRequests)
    /\ IF scriptProcessorRef = Null
         THEN /\ uncaught' = "TypeError"
              /\ UNCHANGED onaudioprocess
              /\ startPc' \in {[startPc EXCEPT ![s] = "resolving"], [startPc EXCEPT ![s] = "hung"]}
         ELSE /\ uncaught' = "none"
              /\ onaudioprocess' = [onaudioprocess EXCEPT ![scriptProcessorRef] = s]
              /\ startPc' = [startPc EXCEPT ![s] = "resolving"]
    /\ stopsInRow' = 0
    /\ observed' = Quiet
    /\ UNCHANGED <<mounted, currentInputTranscription, currentOutputTranscription,
                   transcriptionHistory, error, sessionRef, streamRef, inputAudioContextRef,
                   outputAudioContextRef, scriptProcessorRef, nextStartTimeRef, sourcesRef,
                   closure, stream, inputCtx, processor, outputCtx, closeCalls, currentTime,
                   sources, awaiting>>

\* onerror (lines 203-209): stopRecording() is called with resetError left at
\* its default, true.
onerror(s) ==
    /\ UNCHANGED elsewhere
    /\ NoMicrotask
    /\ ws[s] \in {"connecting", "open", "closing"}
    /\ activeRequests' = decrement(activeRequests)
    /\ stopRecording(TRUE, "Live Session error", [Cur EXCEPT !.ws = [ws EXCEPT ![s] = "errored"]])
    /\ observed' = Quiet
    /\ UNCHANGED <<mounted, transcriptionHistory, onaudioprocess, currentTime, awaiting,
                   startPc, closure>>

oncloseClearingError(s, code) ==
    /\ UNCHANGED elsewhere
    /\ NoMicrotask
    /\ ws[s] \in {"open", "closing", "errored"}
    /\ stopRecording(TRUE,
                     IF code # NORMAL_CLOSURE THEN "Live Session closed unexpectedly" ELSE error,
                     [Cur EXCEPT !.ws = [ws EXCEPT ![s] = "closed"]])
    /\ observed' = [Quiet EXCEPT !.code = code]
    /\ UNCHANGED <<mounted, transcriptionHistory, onaudioprocess, currentTime, awaiting,
                   startPc, closure, activeRequests>>

\* onclose (lines 210-221).
onclose(s, code) ==
    /\ UNCHANGED elsewhere
    /\ NoMicrotask
    /\ ws[s] \in {"open", "closing", "errored"}
    /\ stopRecording(FALSE,
                     IF code # NORMAL_CLOSURE THEN "Live Session closed unexpectedly" ELSE error,
                     [Cur EXCEPT !.ws = [ws EXCEPT ![s] = "closed"]])
    /\ observed' = [Quiet EXCEPT !.code = code]
    /\ UNCHANGED <<mounted, transcriptionHistory, onaudioprocess, currentTime, awaiting,
                   startPc, closure, activeRequests>>

\* A LiveServerMessage, by the fields of serverContent onmessage reads.
Messages ==
    { m \in [outputTranscription : OutputDeltas \cup {NoText},
             inputTranscription : InputDeltas \cup {NoText},
             turnComplete : BOOLEAN,
             audio : 0..MaxDuration,
             interrupted : BOOLEAN] :
        \/ m.outputTranscription # NoText
        \/ m.inputTranscription # NoText
        \/ m.turnComplete
        \/ m.audio > 0
        \/ m.interrupted }

\* Lines 150-154: the else-if appends one delta per message.
AppendedOutput(m) ==
    IF m.outputTranscription # NoText
      THEN currentOutputTranscription \o m.outputTranscription
      ELSE currentOutputTranscription

AppendedInput(m) ==
    IF m.outputTranscription = NoText /\ m.inputTranscription # NoText
      THEN currentInputTranscription \o m.inputTranscription
      ELSE currentInputTranscription

\* Lines 156-162: the entries turnComplete appends, read from the transcripts
\* the callbacks of start s closed over when startRecording was called.
Committed(s) ==
    (IF closure[s].input # "" THEN <<[type |-> USER, text |-> closure[s].input]>> ELSE <<>>)
    \o (IF closure[s].output # "" THEN <<[type |-> MODEL, text |-> closure[s].output]>> ELSE <<>>)

HistoryAfterReplacing(s, m) ==
    IF m.turnComplete THEN Committed(s) ELSE transcriptionHistory

\* Lines 156-162: the history after the message, each entry appended to the
\* previous value by a functional update.
HistoryAfter(s, m) ==
    IF m.turnComplete THEN transcriptionHistory \o Committed(s) ELSE transcriptionHistory

InterruptedLeavingPlaying(srcs, active) ==
    [i \in DOMAIN srcs |-> [srcs[i] EXCEPT !.fresh = FALSE]]

\* Lines 191-201 on the sources srcs and the active set active.
Interrupted(srcs, active) ==
    [i \in DOMAIN srcs |->
        [(IF i \in active THEN StopSource(srcs[i]) ELSE srcs[i]) EXCEPT !.fresh = FALSE]]

\* Lines 169-172: the floor of the next start, given the clock reading t.
ScheduleFloorFromClockOnly(t) == t

ScheduleFloor(t) == Max(nextStartTimeRef, t)

\* Line 187: the floor after a buffer of the given duration is started.
AdvancedFloorForgettingStart(duration) == duration

AdvancedFloor(duration) == nextStartTimeRef + duration

\* The readings outputAudioContextRef.current.currentTime can give at line 171.
Readings == IF outputAudioContextRef = Null THEN {0}
            ELSE currentTime[outputAudioContextRef]..MaxClock

\* The message m makes onmessage schedule a buffer (line 168).
Schedules(m) == m.audio > 0 /\ outputAudioContextRef # Null

\* The running transcripts after lines 150-165 have handled m.
RunningAfter(m) ==
    [input |-> IF m.turnComplete THEN "" ELSE AppendedInput(m),
     output |-> IF m.turnComplete THEN "" ELSE AppendedOutput(m)]

\* onmessage (lines 149-202) up to the await of decodeAudioData at line 173, or
\* to its end when the message schedules no audio.  t is the clock reading.
onmessage(s, m, t) ==
    /\ UNCHANGED elsewhere
    /\ NoMicrotask
    /\ ws[s] \in {"open", "closing"}
    /\ Len(AppendedOutput(m)) <= MaxOutputLen
    /\ Len(AppendedInput(m)) <= MaxInputLen
    /\ m.turnComplete => Len(transcriptionHistory) + Len(Committed(s)) <= MaxHistory
    /\ m.audio > 0 => Len(sources) < MaxChunks
    /\ transcriptionHistory' = SetState(transcriptionHistory, HistoryAfter(s, m))
    /\ IF Schedules(m)
         THEN /\ t \in Readings
              /\ currentTime' = [currentTime EXCEPT ![outputAudioContextRef] = t]
              /\ nextStartTimeRef' = ScheduleFloor(t)
              /\ awaiting' = [start |-> s, duration |-> m.audio, interrupted |-> m.interrupted]
              /\ currentOutputTranscription' =
                    SetState(currentOutputTranscription, RunningAfter(m).output)
              /\ currentInputTranscription' =
                    SetState(currentInputTranscription, RunningAfter(m).input)
              /\ observed' = Quiet
              /\ UNCHANGED <<sources, sourcesRef>>
         ELSE /\ t = 0
              /\ UNCHANGED <<currentTime, awaiting>>
              /\ IF m.interrupted
                   THEN /\ sources' = Interrupted(sources, sourcesRef)
                        /\ sourcesRef' = {}
                        /\ nextStartTimeRef' = InterruptedFloor
                        /\ currentOutputTranscription' = SetState(currentOutputTranscription, "")
                        /\ currentInputTranscription' = SetState(currentInputTranscription, "")
                        /\ observed' = [Quiet EXCEPT !.discarded =
                                           /\ mounted
                                           /\ RunningAfter(m) # [input |-> "", output |-> ""]]
                   ELSE /\ currentOutputTranscription' =
                              SetState(currentOutputTranscription, RunningAfter(m).output)
                        /\ currentInputTranscription' =
                              SetState(currentInputTranscription, RunningAfter(m).input)
                        /\ observed' = Quiet
                        /\ UNCHANGED <<sources, sourcesRef, nextStartTimeRef>>
    /\ uncaught' = "none"
    /\ stopsInRow' = 0
    /\ UNCHANGED <<mounted, isRecording, statusMessage, error, sessionRef, streamRef,
                   inputAudioContextRef, outputAudioContextRef, scriptProcessorRef,
                   activeRequests, startPc, closure, stream, inputCtx, processor,
                   onaudioprocess, outputCtx, ws, closeCalls>>

NewSourceAtClock(duration) ==
    [startAt |-> currentTime[outputAudioContextRef], duration |-> duration,
     ctx |-> outputAudioContextRef, state |-> "playing", fresh |-> TRUE]

\* The AudioBufferSourceNode lines 179-186 create and start.
NewSource(duration) ==
    [startAt |-> nextStartTimeRef, duration |-> duration, ctx |-> outputAudioContextRef,
     state |-> "playing", fresh |-> TRUE]

\* onmessage resumed after the decode (lines 173-202): the microtask that
\* follows the await.
onmessageResume ==
    /\ UNCHANGED elsewhere
    /\ awaiting # NotAwaiting
    /\ awaiting' = NotAwaiting
    /\ IF outputAudioContextRef = Null
         THEN /\ uncaught' = "TypeError"
              /\ observed' = Quiet
              /\ UNCHANGED <<sources, sourcesRef, nextStartTimeRef,
                             currentInputTranscription, currentOutputTranscription>>
         ELSE LET scheduled == Append(sources, NewSource(awaiting.duration))
                  active == sourcesRef \cup {Len(scheduled)}
              IN  /\ uncaught' = "none"
                  /\ IF awaiting.interrupted
                       THEN /\ sources' = Interrupted(scheduled, active)
                            /\ sourcesRef' = {}
                            /\ nextStartTimeRef' = InterruptedFloor
                            /\ currentInputTranscription' = SetState(currentInputTranscription, "")
                            /\ currentOutputTranscription' = SetState(currentOutputTranscription, "")
                            /\ observed' = [Quiet EXCEPT !.discarded =
                                               /\ mounted
                                               /\ \/ currentInputTranscription # ""
                                                  \/ currentOutputTranscription # ""]
                       ELSE /\ sources' = scheduled
                            /\ sourcesRef' = active
                            /\ nextStartTimeRef' = AdvancedFloor(awaiting.duration)
                            /\ observed' = Quiet
                            /\ UNCHANGED <<currentInputTranscription, currentOutputTranscription>>
    /\ stopsInRow' = 0
    /\ UNCHANGED <<mounted, isRecording, transcriptionHistory, statusMessage, error, sessionRef,
                   streamRef, inputAudioContextRef, outputAudioContextRef, scriptProcessorRef,
                   activeRequests, startPc, closure, stream, inputCtx, processor,
                   onaudioprocess, outputCtx, ws, closeCalls, currentTime>>

\* The 'ended' listener of a source (lines 182-184), fired when the buffer has
\* played to its end on a running context.
onended(i) ==
    /\ UNCHANGED elsewhere
    /\ NoMicrotask
    /\ i \in DOMAIN sources
    /\ sources[i].state = "playing"
    /\ outputCtx[sources[i].ctx] = "live"
    /\ sources[i].startAt + sources[i].duration <= MaxClock
    /\ currentTime' = [currentTime EXCEPT ![sources[i].ctx] =
                          Max(@, sources[i].startAt + sources[i].duration)]
    /\ sources' = [sources EXCEPT ![i].state = "ended"]
    /\ sourcesRef' = sourcesRef \ {i}
    /\ uncaught' = "none"
    /\ stopsInRow' = 0
    /\ observed' = Quiet
    /\ UNCHANGED <<mounted, isRecording, currentInputTranscription, currentOutputTranscription,
                   transcriptionHistory, statusMessage, error, sessionRef, streamRef,
                   inputAudioContextRef, outputAudioContextRef, scriptProcessorRef,
                   nextStartTimeRef, activeRequests, startPc, closure, stream, inputCtx,
                   processor, onaudioprocess, outputCtx, ws, closeCalls, awaiting>>

\* The capture callback onopen wires on a capture node (lines 137-145), run
\* for the node p: while the node is connected, or for an event that was queued
\* before stopRecording disconnected it.  It sends on whatever session
\* sessionRef holds when it runs.
audioprocess(p) ==
    /\ UNCHANGED elsewhere
    /\ NoMicrotask
    /\ onaudioprocess[p] # Null
    /\ processor[p] \in {"live", "released"}
    /\ observed' = [Quiet EXCEPT !.node = p, !.sentTo = sessionRef]
    /\ uncaught' = "none"
    /\ stopsInRow' = 0
    /\ UNCHANGED <<mounted, isRecording, currentInputTranscription, currentOutputTranscription,
                   transcriptionHistory, statusMessage, error, sessionRef, streamRef,
                   inputAudioContextRef, outputAudioContextRef, scriptProcessorRef,
                   nextStartTimeRef, sourcesRef, activeRequests, startPc, closure, stream,
                   inputCtx, processor, onaudioprocess, outputCtx, ws, closeCalls,
                   currentTime, sources, awaiting>>

\* The cleanup effect (lines 101-108), run when the component unmounts.
Unmount ==
    /\ UNCHANGED elsewhere
    /\ NoMicrotask
    /\ mounted
    /\ stopRecording(FALSE, error, Cur)
    /\ observed' = Quiet
    /\ mounted' = FALSE
    /\ UNCHANGED <<transcriptionHistory, onaudioprocess, currentTime, awaiting,
                   startPc, closure, activeRequests>>

\* The handlers the environment can run: the user's click, the settling of
\* each awaited promise, the transport's callbacks, the ended event of a
\* source and the unmount.  Two sessions: the second start can overlap the
\* first, and each message carries at most a short audio chunk.
Next ==
    \/ handleToggleRecording
    \/ \E s \in Starts : GetUserMediaReject(s)
    \/ \E s \in Starts, outcome \in StartOutcomes : GetUserMediaResolve(s, outcome)
    \/ \E s \in Starts : ConnectReject(s)
    \/ \E s \in Starts : ConnectResolve(s)
    \/ \E s \in Starts : onopen(s)
    \/ \E s \in Starts : onerror(s)
    \/ \E s \in Starts, code \in CloseCodes : onclose(s, code)
    \/ \E s \in Starts, m \in Messages, t \in 0..MaxClock :
          /\ m.audio > 0 => m.audio = 1 /\ t <= 1 /\ Len(sources) < MaxOverlapChunks
          /\ onmessage(s, m, t)
    \/ onmessageResume
    \/ \E i \in 1..MaxChunks : onended(i)
    \/ \E p \in Starts : audioprocess(p)
    \/ Unmount

Spec == Init /\ [][Next]_vars

\* One session: the user starts the conversation once, and the transport
\* delivers audio of every duration at every clock reading.
NextOneSession ==
    \/ (isRecording \/ startPc[1] = "idle") /\ handleToggleRecording
    \/ \E s \in Starts : GetUserMediaReject(s)
    \/ \E s \in Starts, outcome \in StartOutcomes : GetUserMediaResolve(s, outcome)
    \/ \E s \in Starts : ConnectReject(s)
    \/ \E s \in Starts : ConnectResolve(s)
    \/ \E s \in Starts : onopen(s)
    \/ \E s \in Starts : onerror(s)
    \/ \E s \in Starts, code \in CloseCodes : onclose(s, code)
    \/ \E s \in Starts, m \in Messages, t \in 0..MaxClock :
          /\ m.audio > 0 => Len(sources) < MaxSessionChunks
          /\ onmessage(s, m, t)
    \/ onmessageResume
    \/ \E i \in 1..MaxChunks : onended(i)
    \/ \E p \in Starts : audioprocess(p)
    \/ Unmount

SpecOneSession == Init /\ [][NextOneSession]_vars

\* The messages that carry audio or interrupted and nothing else.
PlaybackMessages ==
    {m \in Messages : /\ m.outputTranscription = NoText
                      /\ m.inputTranscription = NoText
                      /\ ~m.turnComplete}

\* One session that opens and plays: the transport delivers audio and
\* interruptions only, up to MaxChunks chunks.
NextPlayback ==
    \/ (isRecording \/ startPc[1] = "idle") /\ handleToggleRecording
    \/ \E s \in Starts : GetUserMediaResolve(s, "connecting")
    \/ \E s \in Starts : ConnectResolve(s)
    \/ \E s \in Starts : onopen(s)
    \/ \E s \in Starts, m \in PlaybackMessages, t \in 0..MaxClock : onmessage(s, m, t)
    \/ onmessageResume
    \/ \E i \in 1..MaxChunks : onended(i)

SpecPlayback == Init /\ [][NextPlayback]_vars

\* The messages that carry no audio.
TranscriptMessages == {m \in Messages : m.audio = 0}

NoStartPending == \A s \in Starts : startPc[s] \in {"idle", "done", "failed", "hung"}

\* Sessions one after the other: the user starts a conversation only when no
\* start is pending, and the transport delivers transcripts, turn ends and
\* interruptions but no audio.
NextTranscripts ==
    \/ (isRecording \/ NoStartPending) /\ handleToggleRecording
    \/ \E s \in Starts : GetUserMediaResolve(s, "connecting")
    \/ \E s \in Starts : ConnectResolve(s)
    \/ \E s \in Starts : onopen(s)
    \/ \E s \in Starts : onerror(s)
    \/ \E s \in Starts, code \in CloseCodes : onclose(s, code)
    \/ \E s \in Starts, m \in TranscriptMessages : onmessage(s, m, 0)

SpecTranscripts == Init /\ [][NextTranscripts]_vars

\* ------------------------------------------------------ the PCM helpers
\* A sample x of the Float32Array is the integer x * Scale; a sample of an
\* AudioBuffer is the integer that decodeAudioData divides by 32768.
FULL_SCALE == 32768
Scale == FULL_SCALE * SubSteps
Int16Span == 2 * FULL_SCALE
ByteSpan == 256
Pad == 64                              \* the '=' of base64; 0..63 are its digits

\* The samples in [-1, 1] within Window steps of -1, of 0 and of 1.
SampleValues ==
    {n \in (0 - Scale)..Scale :
        \/ n <= Window * SubSteps - Scale
        \/ (0 - Window * SubSteps <= n /\ n <= Window * SubSteps)
        \/ n >= Scale - Window * SubSteps}

Frames == UNION {[1..l -> SampleValues] : l \in 1..MaxSamples}

\* The conversion of a number to an Int16Array element: truncation toward
\* zero, then reduction modulo 2^16 into -32768..32767.
Truncated(n, d) == IF n >= 0 THEN n \div d ELSE 0 - ((0 - n) \div d)

ToInt16(v) == ((v + FULL_SCALE) % Int16Span) - FULL_SCALE

\* new Uint8Array(int16.buffer): two bytes per element, low byte first.
BytesOf(int16) ==
    [k \in 1..(2 * Len(int16)) |->
        LET u == int16[(k + 1) \div 2] % Int16Span
        IN  IF k % 2 = 1 THEN u % ByteSpan ELSE u \div ByteSpan]

\* new Int16Array(data.buffer).
Int16Of(bytes) ==
    [i \in 1..(Len(bytes) \div 2) |->
        ToInt16(bytes[2 * i - 1] + ByteSpan * bytes[2 * i])]

\* btoa on one group of up to three bytes.
Base64Group(b) ==
    CASE Len(b) = 1 -> <<b[1] \div 4, (b[1] % 4) * 16, Pad, Pad>>
      [] Len(b) = 2 -> <<b[1] \div 4, (b[1] % 4) * 16 + b[2] \div 16, (b[2] % 16) * 4, Pad>>
      [] OTHER -> <<b[1] \div 4, (b[1] % 4) * 16 + b[2] \div 16,
                   (b[2] % 16) * 4 + b[3] \div 64, b[3] % 64>>

RECURSIVE encode(_)
\* encode (lines 102-109): the bytes as a binary string, then btoa.
encode(bytes) ==
    IF Len(bytes) = 0 THEN <<>>
    ELSE IF Len(bytes) <= 3 THEN Base64Group(bytes)
    ELSE Base64Group(SubSeq(bytes, 1, 3)) \o encode(SubSeq(bytes, 4, Len(bytes)))

\* atob on one group of four digits.
BytesOfGroup(c) ==
    LET b1 == c[1] * 4 + c[2] \div 16
        b2 == (c[2] % 16) * 16 + c[3] \div 4
        b3 == (c[3] % 4) * 64 + c[4]
    IN  IF c[3] = Pad THEN <<b1>>
        ELSE IF c[4] = Pad THEN <<b1, b2>>
        ELSE <<b1, b2, b3>>

RECURSIVE decode(_)
\* decode (lines 73-81): atob, then the char codes of the binary string.
decode(base64) ==
    IF Len(base64) = 0 THEN <<>>
    ELSE BytesOfGroup(SubSeq(base64, 1, 4)) \o decode(SubSeq(base64, 5, Len(base64)))

\* The samples clamped to the 16-bit range before they are stored.
createPcmBlobClamping(data) ==
    encode(BytesOf([i \in 1..Len(data) |->
        LET v == Truncated(data[i], SubSteps)
        IN  IF v >= FULL_SCALE THEN FULL_SCALE - 1
            ELSE IF v < 0 - FULL_SCALE THEN 0 - FULL_SCALE ELSE v]))

\* createPcmBlob (lines 111-121): the data field of the blob.
createPcmBlob(data) ==
    encode(BytesOf([i \in 1..Len(data) |-> ToInt16(Truncated(data[i], SubSteps))]))

\* decodeAudioData (lines 83-100) with one channel: channel 0 of the buffer,
\* each sample as the integer that line 96 divides by 32768.
decodeAudioData(data) == Int16Of(data)

\* A frame is captured.
InitFrame ==
    /\ samples \in Frames
    /\ pcmPc = "captured"
    /\ blob = <<>>
    /\ decoded = <<>>

\* The capture callback encodes the frame (line 139).
CaptureFrame ==
    /\ pcmPc = "captured"
    /\ blob' = createPcmBlob(samples)
    /\ pcmPc' = "encoded"
    /\ UNCHANGED <<samples, decoded, beyondCodec>>

\* The blob comes back as the audio of a message and is decoded (lines 173-178).
PlayFrame ==
    /\ pcmPc = "encoded"
    /\ decoded' = decodeAudioData(decode(blob))
    /\ pcmPc' = "decoded"
    /\ UNCHANGED <<samples, blob, beyondCodec>>

NextCodec ==
    \/ CaptureFrame
    \/ PlayFrame

\* The PCM helpers on a captured frame, the features idle.
InitCodec ==
    /\ InitConversation
    /\ activeRequests = 0
    /\ InitVideoIdle
    /\ InitChatIdle
    /\ InitFeatureIdle
    /\ activeTab = "live-conversation"
    /\ InitFrame

SpecCodec == InitCodec /\ [][NextCodec]_vars

\* Samples the capture node can deliver beyond [-1, 1] as well: the values
\* within OverWindow steps of -2, -1, 0, 1 and 2.
OverdrivenValues ==
    {n \in (0 - 2 * Scale - OverWindow * SubSteps)..(2 * Scale + OverWindow * SubSteps) :
        \E centre \in {0 - 2 * Scale, 0 - Scale, 0, Scale, 2 * Scale} :
            centre - OverWindow * SubSteps <= n /\ n <= centre + OverWindow * SubSteps}

OverdrivenFrames == UNION {[1..l -> OverdrivenValues] : l \in 1..MaxSamples}

\* The PCM helpers on a captured frame whose samples may lie beyond [-1, 1],
\* the features idle.
InitCodecOverdriven ==
    /\ InitConversation
    /\ activeRequests = 0
    /\ InitVideoIdle
    /\ InitChatIdle
    /\ InitFeatureIdle
    /\ activeTab = "live-conversation"
    /\ samples \in OverdrivenFrames
    /\ pcmPc = "captured"
    /\ blob = <<>>
    /\ decoded = <<>>

SpecCodecOverdriven == InitCodecOverdriven /\ [][NextCodec]_vars

\* ---------------------------------------------------- video generation
\* handleGenerateVideo (part_000 lines 69-125) and the call it awaits,
\* generateVideoFromText (LoadingBar.tsx lines 241-282) or
\* generateVideoFromImage (lines 285-331), which differ in their request only.
POLL_WAIT_MS == 10000

\* The operations generateVideos and getVideosOperation can return: not done,
\* done without a video uri, done with one.
Operations == {op \in [done : BOOLEAN, uri : BOOLEAN] : op.uri => op.done}

\* The messages of the errors a request can reject with.
Rejections == {"Requested entity was not found.", "Network error"}

NO_LINK == "No video download link found."

\* The delay of the setTimeout before a poll (lines 262, 312).
PollDelayBackoff == POLL_WAIT_MS * (polls + 1)

PollDelay == POLL_WAIT_MS

VideoCatchKeepingKey(message, n) ==
    /\ IF message = "Requested entity was not found."
         THEN videoError' = "Video generation failed due to an API key issue."
         ELSE videoError' = "Failed to generate video: " \o message
    /\ UNCHANGED apiKeySelected
    /\ loadingMessage' = "Video generation failed."
    /\ videoIsLoading' = FALSE
    /\ activeRequests' = decrement(n)
    /\ videoPc' = "idle"
    /\ timer' = Null

\* The catch and finally blocks of handleGenerateVideo (lines 111-124) for the
\* error message, with the loading counter at n.
VideoCatch(message, n) ==
    /\ IF message = "Requested entity was not found."
         THEN /\ videoError' = "Video generation failed due to an API key issue."
              /\ apiKeySelected' = FALSE
         ELSE /\ videoError' = "Failed to generate video: " \o message
              /\ UNCHANGED apiKeySelected
    /\ loadingMessage' = "Video generation failed."
    /\ videoIsLoading' = FALSE
    /\ activeRequests' = decrement(n)
    /\ videoPc' = "idle"
    /\ timer' = Null

\* Lines 247-250 (293-296): getAiInstance, then the generateVideos request.
Initiate(keyDefined, n) ==
    IF keyDefined
      THEN /\ loadingMessage' = "Initiating video generation..."
           /\ requests' = requests + 1
           /\ videoPc' = "generateVideos"
           /\ videoIsLoading' = TRUE
           /\ videoError' = "null"
           /\ activeRequests' = n
           /\ UNCHANGED <<apiKeySelected, timer>>
      ELSE /\ VideoCatch("API_KEY is not defined.", n)
           /\ UNCHANGED requests

NO_KEY == "An API key must be selected to generate videos. Please click \"Select API Key\"."

\* handleGenerateVideo up to its first await.  Its button is enabled while
\* apiKeySelected and not isLoading (part_000 line 236); the handler tests
\* apiKeySelected itself as well (line 70), and the model lets it be called
\* without a key.
handleGenerateVideo(withPrompt, withImage, keyDefined) ==
    /\ videoPc = "idle"
    /\ ~videoIsLoading
    /\ generations < MaxGenerations
    /\ IF ~apiKeySelected
         THEN /\ videoError' = NO_KEY
              /\ UNCHANGED <<apiKeySelected, videoIsLoading, generatedVideoUrl, loadingMessage,
                             videoPc, operation, timer, polls, requests, generations,
                             activeRequests>>
         ELSE IF ~withPrompt /\ ~withImage
         THEN /\ videoError' = "Please enter a prompt or upload an image to generate a video."
              /\ UNCHANGED <<apiKeySelected, videoIsLoading, generatedVideoUrl, loadingMessage,
                             videoPc, operation, timer, polls, requests, generations,
                             activeRequests>>
         ELSE /\ generatedVideoUrl' = "null"
              /\ generations' = generations + 1
              /\ operation' = NoOperation
              /\ polls' = 0
              /\ IF withImage
                   THEN /\ videoIsLoading' = TRUE
                        /\ loadingMessage' = "Starting video generation..."
                        /\ videoError' = "null"
                        /\ activeRequests' = increment(activeRequests)
                        /\ videoPc' = "blobToBase64"
                        /\ UNCHANGED <<apiKeySelected, timer, requests>>
                   ELSE Initiate(keyDefined, increment(activeRequests))
    /\ UNCHANGED <<beyondVideo>>

\* blobToBase64 settles (part_000 line 93).
BlobToBase64Settles(ok, keyDefined) ==
    /\ videoPc = "blobToBase64"
    /\ IF ok THEN Initiate(keyDefined, activeRequests)
             ELSE VideoCatch("Could not read the image.", activeRequests) /\ UNCHANGED requests
    /\ UNCHANGED <<generatedVideoUrl, operation, polls, generations, beyondVideo>>

ObserveRetryingWithoutLink(op) ==
    /\ operation' = op
    /\ IF ~op.done \/ ~op.uri
         THEN /\ loadingMessage' = "Video generation in progress... Waiting for 10 seconds."
              /\ timer' = PollDelay
              /\ videoPc' = "waiting"
              /\ UNCHANGED <<apiKeySelected, videoIsLoading, videoError, activeRequests, requests>>
         ELSE /\ loadingMessage' = "Video generation complete. Fetching video..."
              /\ requests' = requests + 1
              /\ videoPc' = "fetch"
              /\ UNCHANGED <<apiKeySelected, videoIsLoading, videoError, activeRequests, timer>>

\* The loop test on the operation a request returned and what follows it
\* (lines 260-272): wait before the next poll, fail without a link, or fetch.
Observe(op) ==
    /\ operation' = op
    /\ IF ~op.done
         THEN /\ loadingMessage' = "Video generation in progress... Waiting for 10 seconds."
              /\ timer' = PollDelay
              /\ videoPc' = "waiting"
              /\ UNCHANGED <<apiKeySelected, videoIsLoading, videoError, activeRequests, requests>>
         ELSE IF ~op.uri
         THEN /\ VideoCatch(NO_LINK, activeRequests)
              /\ UNCHANGED requests
         ELSE /\ loadingMessage' = "Video generation complete. Fetching video..."
              /\ requests' = requests + 1
              /\ videoPc' = "fetch"
              /\ UNCHANGED <<apiKeySelected, videoIsLoading, videoError, activeRequests, timer>>

\* generateVideos resolves with an operation (line 250).
GenerateVideosResolves(op) ==
    /\ videoPc = "generateVideos"
    /\ Observe(op)
    /\ UNCHANGED <<generatedVideoUrl, polls, generations, beyondVideo>>

\* A request of the call rejects: generateVideos, getVideosOperation, fetch or
\* the read of the response body.
RequestRejects(message) ==
    /\ videoPc \in {"generateVideos", "getVideosOperation", "fetch", "blob"}
    /\ VideoCatch(message, activeRequests)
    /\ UNCHANGED <<generatedVideoUrl, operation, polls, requests, generations,
                   beyondVideo>>

\* The timer of line 262 fires and the poll is issued (line 263).
TimerFires ==
    /\ videoPc = "waiting"
    /\ polls < MaxPolls
    /\ timer' = Null
    /\ polls' = polls + 1
    /\ requests' = requests + 1
    /\ videoPc' = "getVideosOperation"
    /\ UNCHANGED <<apiKeySelected, videoIsLoading, videoError, generatedVideoUrl, loadingMessage,
                   operation, generations, activeRequests, beyondVideo>>

\* getVideosOperation resolves with an operation (line 263).
GetVideosOperationResolves(op) ==
    /\ videoPc = "getVideosOperation"
    /\ Observe(op)
    /\ UNCHANGED <<generatedVideoUrl, polls, generations, beyondVideo>>

\* fetch resolves (lines 272-276).
FetchResolves(ok) ==
    /\ videoPc = "fetch"
    /\ IF ok
         THEN /\ videoPc' = "blob"
              /\ UNCHANGED <<apiKeySelected, videoIsLoading, videoError, loadingMessage,
                             timer, activeRequests>>
         ELSE VideoCatch("Failed to fetch video", activeRequests)
    /\ UNCHANGED <<generatedVideoUrl, operation, polls, requests, generations,
                   beyondVideo>>

\* The body of the response is read and the call returns its object URL
\* (lines 276-277, part_000 lines 109-110 and 121-124).
BlobResolves ==
    /\ videoPc = "blob"
    /\ generatedVideoUrl' = "blob:video"
    /\ loadingMessage' = "Video generation complete!"
    /\ videoIsLoading' = FALSE
    /\ activeRequests' = decrement(activeRequests)
    /\ videoPc' = "idle"
    /\ UNCHANGED <<apiKeySelected, videoError, operation, timer, polls, requests, generations,
                   beyondVideo>>

\* handleSelectApiKey (part_000 lines 47-59), its button enabled while not
\* isLoading: the dialog of the key resolves or rejects.
handleSelectApiKey(ok) ==
    /\ ~apiKeySelected /\ ~videoIsLoading
    /\ IF ok THEN apiKeySelected' = TRUE /\ videoError' = "null"
             ELSE videoError' = "Failed to open API key selection" /\ UNCHANGED apiKeySelected
    /\ UNCHANGED <<videoIsLoading, generatedVideoUrl, loadingMessage, videoPc, operation, timer,
                   polls, requests, generations, activeRequests, beyondVideo>>

NextVideo ==
    \/ \E ok \in BOOLEAN : handleSelectApiKey(ok)
    \/ \E withPrompt, withImage, keyDefined \in BOOLEAN :
          handleGenerateVideo(withPrompt, withImage, keyDefined)
    \/ \E ok, keyDefined \in BOOLEAN : BlobToBase64Settles(ok, keyDefined)
    \/ \E op \in Operations : GenerateVideosResolves(op)
    \/ \E message \in Rejections : RequestRejects(message)
    \/ TimerFires
    \/ \E op \in Operations : GetVideosOperationResolves(op)
    \/ \E ok \in BOOLEAN : FetchResolves(ok)
    \/ BlobResolves

\* The video feature with at most one request of another feature in flight.
InitVideo ==
    /\ InitConversation
    /\ activeRequests \in {0, 1}
    /\ InitCodecIdle
    /\ InitVideoIdle
    /\ InitChatIdle
    /\ InitFeatureIdle
    /\ activeTab = "video-generation"

SpecVideo == InitVideo /\ [][NextVideo]_vars

\* Every timer fires and every request settles.
SpecVideoFair ==
    /\ SpecVideo
    /\ WF_vars(TimerFires)
    /\ WF_vars(\E op \in Operations : GenerateVideosResolves(op))
    /\ WF_vars(\E op \in Operations : GetVideosOperationResolves(op))
    /\ WF_vars(\E ok \in BOOLEAN : FetchResolves(ok))
    /\ WF_vars(BlobResolves)
    /\ WF_vars(\E ok, keyDefined \in BOOLEAN : BlobToBase64Settles(ok, keyDefined))

\* ----------------------------------------------------------------- chat
\* ChatFeature.tsx.  What the user can have typed into the input.
ChatInputs == {"", " ", "hi", " hi "}

\* What sendMessage can resolve with (response.text).
ChatResponses == {"ok"}

\* The messages of the errors sendMessage can reject with.
ChatRejections == {"API_KEY is not defined.", "Network error"}

RECURSIVE TrimStart(_)
TrimStart(s) == IF Len(s) > 0 /\ Head(s) = " " THEN TrimStart(Tail(s)) ELSE s

RECURSIVE TrimEnd(_)
TrimEnd(s) ==
    IF Len(s) > 0 /\ SubSeq(s, Len(s), Len(s)) = " "
      THEN TrimEnd(SubSeq(s, 1, Len(s) - 1))
      ELSE s

\* String.prototype.trim on the texts of ChatInputs.
trim(s) == TrimEnd(TrimStart(s))

addMessageReplacing(msgs, type, text) == <<[type |-> type, text |-> text]>>

\* addMessage (lines 23-28) applied to the list msgs.
addMessage(msgs, type, text) == Append(msgs, [type |-> type, text |-> text])

NotInfo(msg) == msg.type # INFO

NotInfoNorError(msg) == msg.type # INFO /\ msg.type # ERROR

historyKeepingErrors(msgs) ==
    LET kept == SelectSeq(msgs, NotInfo)
    IN  [i \in 1..Len(kept) |->
            [role |-> IF kept[i].type = USER THEN "user" ELSE "model", text |-> kept[i].text]]

\* Lines 44-49: the history built from the messages of the render the handler
\* belongs to.
history(msgs) ==
    LET kept == SelectSeq(msgs, NotInfoNorError)
    IN  [i \in 1..Len(kept) |->
            [role |-> IF kept[i].type = USER THEN "user" ELSE "model", text |-> kept[i].text]]

\* The user types into the input, which is disabled while isLoading (lines
\* 151 and 155).
setInput(text) ==
    /\ ~chatIsLoading
    /\ input' = text
    /\ UNCHANGED <<messages, chatIsLoading, chatPending, chatCalls, beyondChat>>

\* handleSendMessage (lines 34-51) up to its await.  Its button and the input
\* are disabled while isLoading; the handler tests isLoading itself as well,
\* and the model lets it be called in every state.
handleSendMessage ==
    /\ chatCalls < MaxChatCalls
    /\ chatCalls' = chatCalls + 1
    /\ IF trim(input) = "" \/ chatIsLoading
         THEN UNCHANGED <<messages, input, chatIsLoading, chatPending>>
         ELSE /\ messages' = addMessage(messages, USER, trim(input))
              /\ input' = ""
              /\ chatIsLoading' = TRUE
              /\ chatPending' = Append(chatPending, [history |-> history(messages),
                                                     message |-> trim(input)])
    /\ UNCHANGED beyondChat

\* sendMessage resolves (lines 51-52 and 56-58).
SendMessageResolves(text) ==
    /\ chatPending # <<>>
    /\ messages' = addMessage(messages, MODEL, text)
    /\ chatIsLoading' = FALSE
    /\ chatPending' = Tail(chatPending)
    /\ UNCHANGED <<input, chatCalls, beyondChat>>

\* sendMessage rejects: getAiInstance throws or the request fails (lines
\* 53-58).
SendMessageRejects(message) ==
    /\ chatPending # <<>>
    /\ messages' = addMessage(messages, ERROR, "Failed to get a response: " \o message)
    /\ chatIsLoading' = FALSE
    /\ chatPending' = Tail(chatPending)
    /\ UNCHANGED <<input, chatCalls, beyondChat>>

NextChat ==
    \/ \E text \in ChatInputs : setInput(text)
    \/ handleSendMessage
    \/ \E text \in ChatResponses : SendMessageResolves(text)
    \/ \E message \in ChatRejections : SendMessageRejects(message)

\* The chat tab is open.
InitChat ==
    /\ InitConversation
    /\ activeRequests = 0
    /\ InitCodecIdle
    /\ InitVideoIdle
    /\ InitChatIdle
    /\ InitFeatureIdle
    /\ activeTab = "chat"

SpecChat == InitChat /\ [][NextChat]_vars

\* ------------------------------------------------- the request features
\* App.tsx mounts the feature of activeTab, so one of them holds state at a
\* time: ImageGenerationFeature.tsx, ContentAnalysisFeature.tsx,
\* GroundingFeature.tsx, part_003 (TTSFeature), part_002
\* (GeminiPlaygroundFeature).  A handler of an unmounted feature still runs to
\* its end; of what it does only decrementLoading has an effect.
Tabs == {"memorandum", "chat", "image-generation", "video-generation", "content-analysis",
         "grounding", "tts", "playground"}

\* The messages of the errors a call can reject with; `${err.message ||
\* 'Unknown error.'}` describes them.
FeatureRejections == {"", "Network error"}

Described(message) == IF message = "" THEN "Unknown error." ELSE message

NO_LOCATION == "Cannot perform Maps grounding without your location. Please enable geolocation or refresh."

\* The features whose handler calls incrementLoading.
UsesLoading(tab) == tab \in {"image-generation", "grounding"}

\* isLoading of LoadingContext (LoadingContext.tsx line 17).
isLoading == activeRequests > 0

\* What LoadingBar renders (LoadingBar.tsx lines 4-9).
LoadingBar == IF ~isLoading THEN "null" ELSE "bar"

\* A handler past its checks, up to the await pc.
Begin(pc) ==
    /\ featureIsLoading' = TRUE
    /\ featureError' = "null"
    /\ featureResult' = "null"
    /\ featurePc' = pc

\* A handler returns from its try block: its finally.
Finally ==
    /\ featureIsLoading' = FALSE
    /\ featurePc' = "idle"

CatchStayingLoading(prefix, message) ==
    /\ featureError' = prefix \o Described(message)
    /\ featurePc' = "idle"
    /\ UNCHANGED <<featureIsLoading, featureResult>>

\* The catch and finally blocks of a handler.
Catch(prefix, message) ==
    /\ featureError' = prefix \o Described(message)
    /\ UNCHANGED featureResult
    /\ Finally

\* handleTabChange of App.tsx (lines 19-21) and the render after it: the
\* feature of the old tab unmounts, the one of the new tab mounts with fresh
\* state and runs its mount effect.  The model leaves the chat and the video
\* tab only with no request of theirs in flight.
handleTabChange(tab) ==
    /\ tab \in Tabs \ {activeTab}
    /\ chatPending = <<>> /\ videoPc = "idle"
    /\ activeTab' = tab
    /\ orphans' = IF UsesLoading(activeTab) /\ featurePc # "idle" THEN orphans + 1 ELSE orphans
    /\ featureIsLoading' = FALSE
    /\ featureError' = "null"
    /\ featureResult' = "null"
    /\ featurePc' = "idle"
    /\ searchType' = "search"
    /\ userLocation' = FALSE
    /\ locationLoading' = (tab = "grounding")
    /\ messages' = <<[type |-> INFO, text |-> WELCOME]>>
    /\ input' = ""
    /\ chatIsLoading' = FALSE
    /\ chatCalls' = 0
    /\ apiKeySelected' = FALSE
    /\ videoIsLoading' = FALSE
    /\ videoError' = "null"
    /\ generatedVideoUrl' = "null"
    /\ loadingMessage' = ""
    /\ operation' = NoOperation
    /\ timer' = Null
    /\ polls' = 0
    /\ requests' = 0
    /\ generations' = 0
    /\ UNCHANGED <<chatPending, videoPc>>
    /\ UNCHANGED <<calls, activeRequests, conversationVars, codecVars>>

\* The finally block of a handler whose feature has unmounted (line 35 of
\* ImageGenerationFeature.tsx, line 77 of GroundingFeature.tsx).
OrphanSettles ==
    /\ orphans > 0
    /\ orphans' = orphans - 1
    /\ activeRequests' = decrement(activeRequests)
    /\ UNCHANGED <<activeTab, featureIsLoading, featureError, featureResult, featurePc, searchType,
                   userLocation, locationLoading, calls, beyondFeature>>

\* handleGenerateImage (ImageGenerationFeature.tsx lines 17-28), its button
\* disabled while isLoading (line 86).
handleGenerateImage(withPrompt) ==
    /\ activeTab = "image-generation" /\ ~featureIsLoading
    /\ calls < MaxCalls
    /\ IF ~withPrompt
         THEN /\ featureError' = "Please enter a prompt for image generation."
              /\ UNCHANGED <<featureIsLoading, featureResult, featurePc, calls, activeRequests>>
         ELSE /\ Begin("generateImage")
              /\ calls' = calls + 1
              /\ activeRequests' = increment(activeRequests)
    /\ UNCHANGED <<activeTab, searchType, userLocation, locationLoading, orphans, beyondFeature>>

\* generateImage resolves (lines 28-29 and 33-36).
GenerateImageResolves ==
    /\ activeTab = "image-generation" /\ featurePc = "generateImage"
    /\ Finally
    /\ featureResult' = "result"
    /\ activeRequests' = decrement(activeRequests)
    /\ UNCHANGED <<featureError, activeTab, searchType, userLocation, locationLoading, orphans,
                   calls, beyondFeature>>

\* generateImage rejects (lines 30-36).
GenerateImageRejects(message) ==
    /\ activeTab = "image-generation" /\ featurePc = "generateImage"
    /\ Catch("Failed to generate image: ", message)
    /\ activeRequests' = decrement(activeRequests)
    /\ UNCHANGED <<activeTab, searchType, userLocation, locationLoading, orphans, calls,
                   beyondFeature>>

\* getGeolocation of the mount effect settles (GroundingFeature.tsx lines
\* 22-37).
GetGeolocationSettles(found) ==
    /\ activeTab = "grounding" /\ locationLoading
    /\ userLocation' = found
    /\ locationLoading' = FALSE
    /\ featureError' = IF found THEN "null"
                       ELSE "Geolocation access denied or not available. Maps grounding may be limited."
    /\ UNCHANGED <<activeTab, featureIsLoading, featureResult, featurePc, searchType, orphans,
                   calls, activeRequests, beyondFeature>>

\* The buttons of the search type, disabled while isLoading (lines 155, 166).
setSearchType(type) ==
    /\ activeTab = "grounding" /\ ~featureIsLoading
    /\ searchType' = type
    /\ UNCHANGED <<activeTab, featureIsLoading, featureError, featureResult, featurePc,
                   userLocation, locationLoading, orphans, calls, activeRequests, beyondFeature>>

\* handleGroundingSearch (lines 39-68 and 75-78) up to its await, its button
\* disabled as line 242 has it.  Without a location the maps branch returns
\* from inside the try block, whose finally block then runs.
handleGroundingSearch(withPrompt) ==
    /\ activeTab = "grounding"
    /\ ~(featureIsLoading \/ (searchType = "maps" /\ ~userLocation /\ ~locationLoading))
    /\ calls < MaxCalls
    /\ IF ~withPrompt
         THEN /\ featureError' = "Please enter a query."
              /\ UNCHANGED <<featureIsLoading, featureResult, featurePc, calls, activeRequests>>
         ELSE IF searchType = "maps" /\ ~userLocation
         THEN /\ featureError' = NO_LOCATION
              /\ featureResult' = "null"
              /\ Finally
              /\ activeRequests' = decrement(decrement(increment(activeRequests)))
              /\ UNCHANGED calls
         ELSE /\ Begin(IF searchType = "search" THEN "searchGrounding" ELSE "mapsGrounding")
              /\ calls' = calls + 1
              /\ activeRequests' = increment(activeRequests)
    /\ UNCHANGED <<activeTab, searchType, userLocation, locationLoading, orphans, beyondFeature>>

\* searchGrounding or mapsGrounding resolves (lines 69-70 and 75-78).
GroundingResolves ==
    /\ activeTab = "grounding" /\ featurePc \in {"searchGrounding", "mapsGrounding"}
    /\ Finally
    /\ featureResult' = "result"
    /\ activeRequests' = decrement(activeRequests)
    /\ UNCHANGED <<featureError, activeTab, searchType, userLocation, locationLoading, orphans,
                   calls, beyondFeature>>

\* searchGrounding or mapsGrounding rejects (lines 71-78).
GroundingRejects(message) ==
    /\ activeTab = "grounding" /\ featurePc \in {"searchGrounding", "mapsGrounding"}
    /\ Catch("Failed to get grounding response: ", message)
    /\ activeRequests' = decrement(activeRequests)
    /\ UNCHANGED <<activeTab, searchType, userLocation, locationLoading, orphans, calls,
                   beyondFeature>>

\* analyzeImage and analyzeVideo (ContentAnalysisFeature.tsx lines 22-33 and
\* 46-57) up to the first await; kind is "image" or "video".
analyze(kind, withFile) ==
    /\ activeTab = "content-analysis" /\ ~featureIsLoading
    /\ calls < MaxCalls
    /\ IF ~withFile
         THEN /\ featureError' = "Please upload " \o (IF kind = "image" THEN "an image" ELSE "a video")
                                   \o " file to analyze."
              /\ UNCHANGED <<featureIsLoading, featureResult, featurePc>>
         ELSE Begin("blobToBase64 " \o kind)
    /\ UNCHANGED <<activeTab, searchType, userLocation, locationLoading, orphans, calls,
                   activeRequests, beyondFeature>>

\* blobToBase64 resolves and generateContent is called (lines 33-36, 57-66).
FileRead(kind) ==
    /\ activeTab = "content-analysis" /\ featurePc = "blobToBase64 " \o kind
    /\ featurePc' = "generateContent " \o kind
    /\ calls' = calls + 1
    /\ UNCHANGED <<activeTab, featureIsLoading, featureError, featureResult, searchType,
                   userLocation, locationLoading, orphans, activeRequests, beyondFeature>>

\* generateContent resolves (lines 37 and 41-43, 67 and 71-73).
AnalysisResolves ==
    /\ activeTab = "content-analysis"
    /\ featurePc \in {"generateContent image", "generateContent video"}
    /\ Finally
    /\ featureResult' = "result"
    /\ UNCHANGED <<featureError, activeTab, searchType, userLocation, locationLoading, orphans,
                   calls, activeRequests, beyondFeature>>

\* blobToBase64 or generateContent rejects (lines 38-43, 68-73).
AnalysisRejects(kind, message) ==
    /\ activeTab = "content-analysis"
    /\ featurePc \in {"blobToBase64 " \o kind, "generateContent " \o kind}
    /\ Catch("Failed to analyze " \o kind \o ": ", message)
    /\ UNCHANGED <<activeTab, searchType, userLocation, locationLoading, orphans, calls,
                   activeRequests, beyondFeature>>

\* handleGenerateAndPlaySpeech (part_003 lines 17-35) up to its first await.
handleGenerateAndPlaySpeech(withText) ==
    /\ activeTab = "tts" /\ ~featureIsLoading
    /\ calls < MaxCalls
    /\ IF ~withText
         THEN /\ featureError' = "Please enter some text to convert to speech."
              /\ UNCHANGED <<featureIsLoading, featureResult, featurePc, calls>>
         ELSE /\ Begin("generateSpeech")
              /\ calls' = calls + 1
    /\ UNCHANGED <<activeTab, searchType, userLocation, locationLoading, orphans,
                   activeRequests, beyondFeature>>

\* generateSpeech resolves and the audio is decoded (lines 35-47).
GenerateSpeechResolves ==
    /\ activeTab = "tts" /\ featurePc = "generateSpeech"
    /\ featurePc' = "decodeAudioData"
    /\ UNCHANGED <<activeTab, featureIsLoading, featureError, featureResult, searchType,
                   userLocation, locationLoading, orphans, calls, activeRequests, beyondFeature>>

\* decodeAudioData resolves and the source is started (lines 48-54, 57-59).
SpeechPlays ==
    /\ activeTab = "tts" /\ featurePc = "decodeAudioData"
    /\ Finally
    /\ featureResult' = "result"
    /\ UNCHANGED <<featureError, activeTab, searchType, userLocation, locationLoading, orphans,
                   calls, activeRequests, beyondFeature>>

\* generateSpeech or decodeAudioData rejects (lines 54-59).
SpeechRejects(message) ==
    /\ activeTab = "tts" /\ featurePc \in {"generateSpeech", "decodeAudioData"}
    /\ Catch("Failed to generate speech: ", message)
    /\ UNCHANGED <<activeTab, searchType, userLocation, locationLoading, orphans, calls,
                   activeRequests, beyondFeature>>

\* handleGenerateResponse (part_002 lines 16-28) up to its await.
handleGenerateResponse(withPrompt) ==
    /\ activeTab = "playground" /\ ~featureIsLoading
    /\ calls < MaxCalls
    /\ IF ~withPrompt
         THEN /\ featureError' = "Please enter a prompt."
              /\ UNCHANGED <<featureIsLoading, featureResult, featurePc, calls>>
         ELSE /\ Begin("generateContent")
              /\ calls' = calls + 1
    /\ UNCHANGED <<activeTab, searchType, userLocation, locationLoading, orphans,
                   activeRequests, beyondFeature>>

\* generateContent resolves (lines 28-35 and 39-41).
PlaygroundResolves ==
    /\ activeTab = "playground" /\ featurePc = "generateContent"
    /\ Finally
    /\ featureResult' = "result"
    /\ UNCHANGED <<featureError, activeTab, searchType, userLocation, locationLoading, orphans,
                   calls, activeRequests, beyondFeature>>

\* generateContent rejects (lines 36-41).
PlaygroundRejects(message) ==
    /\ activeTab = "playground" /\ featurePc = "generateContent"
    /\ Catch("Failed to get response: ", message)
    /\ UNCHANGED <<activeTab, searchType, userLocation, locationLoading, orphans, calls,
                   activeRequests, beyondFeature>>

\* The memorandum is open and no feature has run.
InitRequests ==
    /\ InitConversation
    /\ activeRequests = 0
    /\ InitCodecIdle
    /\ InitVideoIdle
    /\ InitChatIdle
    /\ InitFeatureIdle
    /\ activeTab = "memorandum"

NextRequests ==
    \/ \E tab \in Tabs : handleTabChange(tab)
    \/ OrphanSettles
    \/ \E withPrompt \in BOOLEAN : handleGenerateImage(withPrompt)
    \/ GenerateImageResolves
    \/ \E message \in FeatureRejections : GenerateImageRejects(message)
    \/ \E found \in BOOLEAN : GetGeolocationSettles(found)
    \/ \E type \in {"search", "maps"} : setSearchType(type)
    \/ \E withPrompt \in BOOLEAN : handleGroundingSearch(withPrompt)
    \/ GroundingResolves
    \/ \E message \in FeatureRejections : GroundingRejects(message)
    \/ \E kind \in {"image", "video"}, withFile \in BOOLEAN : analyze(kind, withFile)
    \/ \E kind \in {"image", "video"} : FileRead(kind)
    \/ AnalysisResolves
    \/ \E kind \in {"image", "video"}, message \in FeatureRejections : AnalysisRejects(kind, message)
    \/ \E withText \in BOOLEAN : handleGenerateAndPlaySpeech(withText)
    \/ GenerateSpeechResolves
    \/ SpeechPlays
    \/ \E message \in FeatureRejections : SpeechRejects(message)
    \/ \E withPrompt \in BOOLEAN : handleGenerateResponse(withPrompt)
    \/ PlaygroundResolves
    \/ \E message \in FeatureRejections : PlaygroundRejects(message)
    \/ activeTab = "chat" /\ NextChat
    \/ activeTab = "video-generation" /\ NextVideo

SpecRequests == InitRequests /\ [][NextRequests]_vars

\* =============================================================== claims
AbnormalCodes == CloseCodes \ {NORMAL_CLOSURE}

\* Start s holds a microphone stream, a capture node or a transport session
\* that has not been torn down.
Holding(s) ==
    \/ stream[s] = "live"
    \/ processor[s] = "live"
    \/ ws[s] \in {"connecting", "open"}

\* Start s acquires its microphone stream or its transport session in this step.
Acquires(s) ==
    \/ stream[s] = "none" /\ stream'[s] # "none"
    \/ ws[s] = "none" /\ ws'[s] # "none"

AllRefsNull ==
    /\ sessionRef = Null
    /\ streamRef = Null
    /\ inputAudioContextRef = Null
    /\ outputAudioContextRef = Null
    /\ scriptProcessorRef = Null

\* C1: at most one live session per controller: no start acquires a microphone
\* stream, capture node or transport session while another start still holds
\* one that stopRecording has not torn down.
C1_OneSessionAtATime ==
    [][\A s \in Starts : Acquires(s) => \A r \in Starts \ {s} : ~Holding(r)]_vars

\* The entries a turnComplete is to append: the running user transcript, then
\* the running model transcript, each if non-empty.
RunningTranscripts ==
    (IF currentInputTranscription # ""
       THEN <<[type |-> USER, text |-> currentInputTranscription]>> ELSE <<>>)
    \o (IF currentOutputTranscription # ""
       THEN <<[type |-> MODEL, text |-> currentOutputTranscription]>> ELSE <<>>)

\* C2: a turnComplete message handled while the session is open appends the
\* running user transcript and then the running model transcript (each if
\* non-empty) to transcriptionHistory and empties both.
C2_TurnCompleteCommits ==
    [][\A s \in Starts, m \in Messages, t \in 0..MaxClock :
          ( /\ onmessage(s, m, t)
            /\ m.turnComplete
            /\ m.outputTranscription = NoText
            /\ m.inputTranscription = NoText
            /\ ws[s] = "open"
            /\ mounted )
          => /\ transcriptionHistory' = transcriptionHistory \o RunningTranscripts
             /\ currentInputTranscription' = ""
             /\ currentOutputTranscription' = ""]_vars

\* C3: once onerror, or onclose with an abnormal code, has been handled, an
\* error message is set and the controller is idle with its handles released.
C3_ErrorSurfacedAndIdle ==
    [][( /\ mounted
         /\ \/ \E s \in Starts : onerror(s)
            \/ \E s \in Starts, code \in AbnormalCodes : onclose(s, code) )
       => /\ error' # "null"
          /\ ~isRecording'
          /\ AllRefsNull']_vars

\* C4: only the manual stop clears the error message: the teardown run by
\* onerror, by onclose, by the catch block of a failed start and by the unmount
\* leaves the message that was set when it was called.
C4_OnlyManualStopClearsError ==
    [][mounted =>
        /\ (\E s \in Starts : onerror(s)) => error' = "Live Session error"
        /\ \A code \in CloseCodes :
              (\E s \in Starts : onclose(s, code)) =>
                  error' = IF code # NORMAL_CLOSURE THEN "Live Session closed unexpectedly"
                                                    ELSE error
        /\ (\E s \in Starts : startPc[s] # "failed" /\ startPc'[s] = "failed") =>
              error' = "Failed to start"
        /\ Unmount => error' = error]_vars

\* C5: teardown is idempotent: a stopRecording that directly follows a
\* stopRecording throws nothing, releases nothing a second time, and leaves
\* every handle null, the active set empty, nextStartTime at 0 and both running
\* transcripts empty.
C5_TeardownIdempotent ==
    [][(stopsInRow >= 1 /\ stopsInRow' = 2)
       => /\ uncaught' = "none"
          /\ UNCHANGED <<stream, inputCtx, processor, outputCtx, closeCalls, sources>>
          /\ \A s \in Starts :
                /\ closeCalls'[s] <= 1
                /\ "releasedTwice" \notin {stream'[s], inputCtx'[s], processor'[s], outputCtx'[s]}
          /\ AllRefsNull'
          /\ sourcesRef' = {}
          /\ nextStartTimeRef' = 0
          /\ currentInputTranscription' = ""
          /\ currentOutputTranscription' = ""]_vars

\* A session was opened and torn down, and stopRecording then ran a second
\* time in a row.
C5_Witness ==
    /\ stopsInRow = 2
    /\ \E s \in Starts :
          /\ stream[s] = "released"
          /\ outputCtx[s] = "released"
          /\ closeCalls[s] = 1

NoStartInProgress == \A s \in Starts : startPc[s] \in {"idle", "done", "failed"}

\* Start s has acquired an object that was never stopped, disconnected or closed.
Leaked(s) ==
    \/ stream[s] = "live"
    \/ inputCtx[s] = "live"
    \/ processor[s] = "live"
    \/ outputCtx[s] = "live"
    \/ ws[s] \in {"connecting", "open"}

\* C6: teardown leaks nothing: right after a stopRecording, with no start in
\* progress, every stream, capture node, audio context, transport session and
\* playing source of every earlier start has been released.
C6_TeardownLeaksNothing ==
    (stopsInRow >= 1 /\ NoStartInProgress)
    => /\ \A s \in Starts : ~Leaked(s)
       /\ \A i \in DOMAIN sources : sources[i].state # "playing"

\* C7: a handler that runs on a torn-down session throws nothing, does not
\* re-enter the recording state and adds no source to the active set.
C7_HandlersTolerateTeardown ==
    [][AllRefsNull
       => /\ uncaught' = "none"
          /\ isRecording' => isRecording
          /\ sourcesRef' \subseteq sourcesRef]_vars

\* C8: buffers scheduled with no interrupt or teardown between them do not
\* overlap and start in arrival order: each starts no earlier than the end of
\* every buffer scheduled before it.
C8_NoOverlap ==
    \A i, j \in DOMAIN sources :
        (i < j /\ sources[i].fresh /\ sources[j].fresh)
        => sources[i].startAt + sources[i].duration <= sources[j].startAt

\* Two buffers were scheduled in a row, the second after a silence.
C8_Witness ==
    /\ Len(sources) >= 2
    /\ sources[1].fresh /\ sources[2].fresh
    /\ sources[1].duration # sources[2].duration
    /\ sources[2].startAt > sources[1].startAt + sources[1].duration

\* The messages that carry interrupted.
InterruptMessages == {m \in Messages : m.interrupted}

\* A step that handles an interrupted message to its end: an onmessage that
\* awaits no decode (it reads no clock, t = 0), or the continuation of one that
\* did.
InterruptedStep ==
    \/ /\ awaiting = NotAwaiting
       /\ awaiting' = NotAwaiting
       /\ \E s \in Starts, m \in InterruptMessages : onmessage(s, m, 0)
    \/ awaiting.interrupted /\ onmessageResume

\* C9: nextStartTime never decreases, except when an interrupted message or
\* stopRecording resets it to 0.
C9_FloorMonotonic ==
    [][\/ nextStartTimeRef' >= nextStartTimeRef
       \/ /\ nextStartTimeRef' = 0
          /\ InterruptedStep \/ stopsInRow' >= 1]_vars

\* The floor has advanced past two scheduled buffers.
C9_Witness ==
    /\ Len(sources) >= 2
    /\ sources[2].fresh
    /\ nextStartTimeRef = sources[2].startAt + sources[2].duration
    /\ nextStartTimeRef > sources[1].duration

\* No buffer has been scheduled since the last interrupt or teardown.
NothingScheduled == \A i \in DOMAIN sources : ~sources[i].fresh

\* C10: an interrupted message stops every source of the active set, empties
\* the set and resets nextStartTime to 0, and the next audio chunk starts at
\* the playback clock's current time.
C10_InterruptThenImmediate ==
    [][/\ \/ /\ \A i \in sourcesRef : sources'[i].state = "stopped"
             /\ \A i \in DOMAIN sources' : sources'[i].state # "playing"
             /\ sourcesRef' = {}
             /\ nextStartTimeRef' = 0
          \/ ~InterruptedStep
       /\ (onmessageResume /\ NothingScheduled /\ outputAudioContextRef # Null)
          => sources'[Len(sources')].startAt = currentTime[outputAudioContextRef]]_vars

\* A playing buffer was stopped by an interrupt, and the next chunk of the same
\* running session started at the clock's reading, later than 0.
C10_Witness ==
    /\ isRecording
    /\ Len(sources) >= 2
    /\ sources[1].state = "stopped" /\ ~sources[1].fresh
    /\ sources[2].state = "playing" /\ sources[2].fresh
    /\ sources[2].ctx = sources[1].ctx
    /\ sources[2].startAt = currentTime[sources[2].ctx]
    /\ sources[2].startAt > 0
    /\ sources[2].startAt < sources[1].startAt + sources[1].duration

\* The running transcripts hold text of the turn in progress.
MidTurn == currentInputTranscription # "" \/ currentOutputTranscription # ""

\* What an interrupt leaves: no running transcript, no source playing, an empty
\* active set.
TurnDiscarded ==
    /\ currentInputTranscription = ""
    /\ currentOutputTranscription = ""
    /\ sourcesRef = {}
    /\ \A i \in DOMAIN sources : sources[i].state # "playing"

\* C11: an interrupted message that arrives mid-turn (no turnComplete in it,
\* running transcripts non-empty) leaves transcriptionHistory unchanged, empties
\* both running transcripts and stops every source that was scheduled or
\* playing; this holds for the message handled in one step and for the one
\* whose handling awaits the decode of its audio.
C11_InterruptDiscardsTurn ==
    [][/\ \/ /\ transcriptionHistory' = transcriptionHistory
             /\ (mounted /\ MidTurn /\ awaiting' = NotAwaiting) => TurnDiscarded'
          \/ awaiting # NotAwaiting
          \/ ~\E s \in Starts, m \in InterruptMessages, t \in 0..MaxClock :
                 ~m.turnComplete /\ onmessage(s, m, t)
       /\ (onmessageResume /\ awaiting.interrupted /\ mounted /\ MidTurn)
             => /\ transcriptionHistory' = transcriptionHistory
                /\ TurnDiscarded']_vars

\* An interrupt has just discarded the text of a turn in progress and stopped a
\* buffer, with nothing committed to the history.
C11_Witness ==
    /\ observed.discarded
    /\ isRecording
    /\ transcriptionHistory = <<>>
    /\ TurnDiscarded
    /\ \E i \in DOMAIN sources : sources[i].state = "stopped"

\* The opened callback of session s has fired.
Opened(s) == ws[s] \in {"open", "closing", "errored", "closed"}

\* The capture callback of node p runs after stopRecording has disconnected the
\* node, directly after a stopRecording, or after the error or close event of
\* the session it was wired for has been handled.
AfterTeardown(p) ==
    \/ processor[p] = "released"
    \/ stopsInRow >= 1
    \/ ws[onaudioprocess[p]] \in {"errored", "closed"}

StartFails(s) == startPc[s] # "failed" /\ startPc'[s] = "failed"

\* A call of startRecording begins in this step.
StartBegins == \E r \in Starts : startPc[r] = "idle" /\ startPc'[r] # "idle"

\* C13: a start that fails (getUserMedia rejects, the capture context cannot be
\* created, the connection is refused) ends in its catch block: nothing is left
\* uncaught, the message 'Failed to start' is set, the controller is idle with
\* every ref null and the objects the refs held released, and no start begins
\* but by the user's click.
C13_StartFailureCaught ==
    [][/\ \A s \in Starts :
             StartFails(s)
             => /\ uncaught' = "none"
                /\ mounted => (error' = "Failed to start" /\ ~isRecording')
                /\ AllRefsNull'
                /\ stream'[s] # "live" /\ inputCtx'[s] # "live" /\ processor'[s] # "live"
                /\ ws'[s] \notin {"connecting", "open"}
                /\ ~StartBegins
       /\ StartBegins => handleToggleRecording]_vars

\* The connection of a start was refused after its microphone stream and
\* capture node had been acquired: they are released and the message is shown.
C13_Witness ==
    \E s \in Starts :
       /\ startPc[s] = "failed"
       /\ ws[s] = "closed"
       /\ stream[s] = "released" /\ processor[s] = "released"
       /\ error = "Failed to start"
       /\ ~isRecording
       /\ stopsInRow = 1

\* C14: onclose with a code other than 1000 sets the message 'Live Session
\* closed unexpectedly' and tears down without clearing it; onclose with code
\* 1000 sets no message and leaves the one set earlier as it was.
C14_CloseCodeDecidesError ==
    [][mounted =>
        \A s \in Starts, code \in CloseCodes :
           onclose(s, code)
           => /\ error' = IF code = NORMAL_CLOSURE THEN error
                                                   ELSE "Live Session closed unexpectedly"
              /\ ~isRecording'
              /\ AllRefsNull']_vars

\* A session closed with code 1000 after a start had failed: the message of
\* the failure is still shown.
C14_Witness ==
    /\ mounted
    /\ observed.code = NORMAL_CLOSURE
    /\ error = "Failed to start"
    /\ AllRefsNull

\* The buffer onmessage has just scheduled.
Scheduled == sources[Len(sources)]

\* Three chunks of duration 1 were scheduled in a row while the playback clock
\* read 0.
ThreeAtClockZero ==
    /\ Len(sources) >= 3
    /\ \A i \in 1..3 : sources[i].fresh /\ sources[i].duration = 1
    /\ currentTime[sources[3].ctx] = 0

\* C16: a chunk is scheduled at startAt = max(nextStartTime, playback clock);
\* nextStartTime is then startAt plus the duration of the buffer and the source
\* is in the active set; the source leaves the set when it ends; three chunks of
\* duration 1 that arrive while the clock reads 0 start at 0, 1 and 2.
C16_ScheduleChunk ==
    [][/\ \A s \in Starts, m \in PlaybackMessages, t \in 0..MaxClock :
             (onmessage(s, m, t) /\ Schedules(m))
             => nextStartTimeRef' = Max(nextStartTimeRef, currentTime'[outputAudioContextRef])
       /\ (onmessageResume /\ outputAudioContextRef # Null)
             => /\ Scheduled'.startAt = nextStartTimeRef
                /\ ~awaiting.interrupted
                     => /\ nextStartTimeRef' = Scheduled'.startAt + Scheduled'.duration
                        /\ Len(sources') \in sourcesRef'
                        /\ Scheduled'.state = "playing"
       /\ \A i \in 1..MaxChunks :
             onended(i) => (sourcesRef' = sourcesRef \ {i} /\ sources'[i].state = "ended")
       /\ ThreeAtClockZero'
             => (sources'[1].startAt = 0 /\ sources'[2].startAt = 1 /\ sources'[3].startAt = 2)]_vars

\* The three chunks of the example are scheduled and in the active set, and
\* nextStartTime is 3.
C16_Witness ==
    /\ ThreeAtClockZero
    /\ sourcesRef = {1, 2, 3}
    /\ sources[3].startAt = 2
    /\ nextStartTimeRef = 3

\* The distance of a decoded sample from the sample it came from, in units of
\* 1 / Scale.
Deviation(i) ==
    LET d == samples[i] - decoded[i] * SubSteps IN IF d >= 0 THEN d ELSE 0 - d

\* C15: PCM round trip: every sample of a frame in [-1, 1], once through
\* createPcmBlob, decode and decodeAudioData, is within 1/32768 of itself.
C15_PcmRoundTrip ==
    pcmPc = "decoded"
    => /\ Len(decoded) = Len(samples)
       /\ \A i \in 1..Len(samples) : Deviation(i) <= SubSteps

\* The messages that carry transcript deltas and neither end nor interrupt the
\* turn.
DeltaMessages ==
    {m \in Messages : ~m.turnComplete /\ ~m.interrupted /\ m.audio = 0}

\* The text m delivers for a role: the delta, or nothing when the field is
\* absent.
Delivered(text) == IF text = NoText THEN "" ELSE text

\* C17: every transcript delta is appended, in arrival order: a message
\* extends the running user transcript by the inputTranscription text it
\* carries and the running model transcript by the outputTranscription text it
\* carries, also when it carries both.
C17_DeltasAppended ==
    [][\A s \in Starts, m \in DeltaMessages :
          (onmessage(s, m, 0) /\ mounted)
          => /\ currentInputTranscription' =
                   currentInputTranscription \o Delivered(m.inputTranscription)
             /\ currentOutputTranscription' =
                   currentOutputTranscription \o Delivered(m.outputTranscription)]_vars

\* The microphone stream and the capture node the refs hold are live.
CaptureHeld ==
    /\ streamRef # Null /\ stream[streamRef] = "live"
    /\ scriptProcessorRef # Null /\ processor[scriptProcessorRef] = "live"

\* The controller is connecting the session s: its refs hold the stream and
\* the capture node of s, and s has not opened.
Connecting(s) ==
    /\ startPc[s] = "connect"
    /\ streamRef = s /\ scriptProcessorRef = s
    /\ CaptureHeld

\* C18: isRecording becomes true only by the opened callback of the session
\* the controller is connecting (never while it is idle after a teardown), and
\* while isRecording is true the microphone stream and the capture node of the
\* current session are held.
C18_StateMachine ==
    [][/\ (~isRecording /\ isRecording') => \E s \in Starts : onopen(s) /\ Connecting(s)
       /\ (mounted' /\ isRecording') => CaptureHeld']_vars

\* The call of generateVideoFromText or generateVideoFromImage, having issued
\* its first request, settles in this step.
Completes ==
    /\ videoPc \in {"generateVideos", "waiting", "getVideosOperation", "fetch", "blob"}
    /\ videoPc' = "idle"

\* Every wait is a timer of 10 seconds; a poll is issued only when such a timer
\* has elapsed and the operation last observed is not done; once an operation
\* that is done has been observed the call polls no more.
PollingRule ==
    /\ timer' \in {Null, POLL_WAIT_MS}
    /\ videoPc' = "waiting" => timer' = POLL_WAIT_MS
    /\ polls' > polls => (videoPc = "waiting" /\ timer = POLL_WAIT_MS /\ ~operation.done)
    /\ operation.done => (polls' = polls \/ generations' # generations)

\* C19 as stated: the call waits 10 seconds before each poll, polls until an
\* operation that is done is observed and no further, and completes only when
\* done has been observed.
C19_PollsUntilDone ==
    [][/\ PollingRule
       /\ Completes => operation'.done]_vars

\* C19, amended: the call waits 10 seconds before each poll and polls until an
\* operation that is done is observed and no further; it completes without
\* having observed done only by failing, when a request of it rejects; and
\* once it has observed done with a video uri it completes.
C19_PollsUntilDoneOrFailure ==
    /\ [][/\ PollingRule
          /\ (Completes /\ ~operation'.done) => videoError' # "null"]_vars
    /\ (videoPc \in {"fetch", "blob"}) ~> (videoPc = "idle")

\* The call polled twice, the second poll observed done, and it completed with
\* a video.
C19_Witness ==
    /\ polls = MaxPolls
    /\ operation.done
    /\ videoPc = "idle"
    /\ generatedVideoUrl # "null"

\* The call observes, in this step, an operation that is done and has no video
\* uri.
ObservesNoLink ==
    /\ videoPc \in {"generateVideos", "getVideosOperation"}
    /\ \/ GenerateVideosResolves([done |-> TRUE, uri |-> FALSE])
       \/ GetVideosOperationResolves([done |-> TRUE, uri |-> FALSE])

\* C20: when the operation is done without a video uri, the call fails with
\* 'No video download link found.': the feature shows the error and no video,
\* isLoading is false, the loading counter is decremented once, and no request
\* is issued, then or later, until the user generates again.
C20_NoDownloadLink ==
    [][/\ ObservesNoLink
          => /\ videoError' = "Failed to generate video: " \o NO_LINK
             /\ generatedVideoUrl' = "null"
             /\ ~videoIsLoading'
             /\ videoPc' = "idle"
             /\ timer' = Null
             /\ requests' = requests
             /\ activeRequests' = activeRequests - 1
       /\ (videoPc = "idle" /\ requests' # requests) => generations' = generations + 1]_vars

\* After a poll the operation was done without a uri: the error is shown, and
\* the request of another feature is still counted.
C20_Witness ==
    /\ operation = [done |-> TRUE, uri |-> FALSE]
    /\ polls >= 1
    /\ videoPc = "idle"
    /\ videoError = "Failed to generate video: " \o NO_LINK
    /\ generatedVideoUrl = "null"
    /\ ~videoIsLoading
    /\ timer = Null
    /\ activeRequests = 1

\* The 16-bit value the blob holds for sample i, read from its bytes low byte
\* first.
StoredInt16(i) ==
    LET bytes == decode(blob)
        u == bytes[2 * i - 1] + ByteSpan * bytes[2 * i]
    IN  IF u >= FULL_SCALE THEN u - Int16Span ELSE u

\* n is v * 32768 with its fraction dropped, v the sample of value x / SubSteps
\* in units of 1 / 32768.
IsTruncationOf(n, x) ==
    IF x >= 0 THEN n * SubSteps <= x /\ x < (n + 1) * SubSteps
              ELSE (n - 1) * SubSteps < x /\ x <= n * SubSteps

\* C21: createPcmBlob does not clamp: the blob holds two bytes per sample, low
\* byte first, and the 16-bit signed value they spell differs by a multiple of
\* 2^16 from v * 32768 truncated toward zero, whether or not v lies in [-1, 1).
C21_NoClamping ==
    pcmPc = "encoded"
    => /\ Len(decode(blob)) = 2 * Len(samples)
       /\ \A i \in 1..Len(samples) :
             /\ StoredInt16(i) \in (0 - FULL_SCALE)..(FULL_SCALE - 1)
             /\ \E wraps \in -2..2 :
                   IsTruncationOf(StoredInt16(i) + wraps * Int16Span, samples[i])

\* The sample 1.0 has been encoded as -32768, bytes 00 80.
C21_Witness ==
    /\ pcmPc = "encoded"
    /\ samples = <<Scale>>
    /\ decode(blob) = <<0, 128>>
    /\ StoredInt16(1) = 0 - FULL_SCALE

\* The transport has opened the session of start s or reported an error on it.
OpenedOrErrored(s) == ws[s] \in {"open", "closing", "errored"}

ControllerIdle ==
    /\ mounted
    /\ ~isRecording
    /\ AllRefsNull
    /\ NoStartInProgress
    /\ awaiting = NotAwaiting

\* C26: while the controller is idle both running transcripts are empty.
C26_IdleTranscriptsEmpty ==
    ControllerIdle => currentInputTranscription = "" /\ currentOutputTranscription = ""

\* C27: transcriptionHistory is append-only: every step leaves the entries it
\* held where they were.
C27_HistoryAppendOnly ==
    [][/\ Len(transcriptionHistory') >= Len(transcriptionHistory)
       /\ SubSeq(transcriptionHistory', 1, Len(transcriptionHistory)) = transcriptionHistory]_vars

\* An entry was appended to a history that held one, and the session was torn
\* down afterwards.
C27_Witness ==
    /\ Len(transcriptionHistory) >= 2
    /\ stopsInRow >= 1
    /\ \E s \in Starts : ws[s] = "closed"

\* handleSendMessage is called in this step, and its test of line 35 passes.
SendCalled == chatCalls' # chatCalls

Sendable == trim(input) # "" /\ ~chatIsLoading

IsUserOrModel(msg) == msg.type \in {USER, MODEL}

Preceding(msgs) ==
    LET said == SelectSeq(msgs, IsUserOrModel)
    IN  [i \in 1..Len(said) |->
            [role |-> IF said[i].type = USER THEN "user" ELSE "model", text |-> said[i].text]]

\* C29: the history handleSendMessage passes to the provider is the USER and
\* MODEL messages that preceded the send, in order, as user and model roles;
\* the message being sent is passed beside it, trimmed, and is not part of it.
C29_HistoryPassed ==
    [][Len(chatPending') > Len(chatPending)
          => LET sent == chatPending'[Len(chatPending')] IN
             /\ sent.history = Preceding(messages)
             /\ sent.message = trim(input)
             /\ messages' = Append(messages, [type |-> USER, text |-> sent.message])]_vars

\* A request is in flight whose history holds the exchange before it, a
\* failed one included: two USER messages, one MODEL message, no ERROR.
C29_Witness ==
    /\ Len(chatPending) = 1
    /\ Len(messages) = 6
    /\ \E i \in 1..Len(messages) : messages[i].type = ERROR
    /\ Len(chatPending[1].history) = 3
    /\ chatPending[1].message = "hi"

Shown(text) ==
    /\ featureError' = text
    /\ ~featureIsLoading'
    /\ featurePc' = "idle"
    /\ calls' = calls

\* C22: every request feature catches a failing provider call: the failure
\* becomes a visible error (an ERROR message in the chat), isLoading is reset,
\* and no call is issued in its place; isLoading is true exactly while a
\* handler of the feature runs.
C22_FailuresShown ==
    [][/\ \A message \in FeatureRejections :
             /\ GenerateImageRejects(message)
                   => Shown("Failed to generate image: " \o Described(message))
             /\ GroundingRejects(message)
                   => Shown("Failed to get grounding response: " \o Described(message))
             /\ AnalysisRejects("image", message)
                   => Shown("Failed to analyze image: " \o Described(message))
             /\ AnalysisRejects("video", message)
                   => Shown("Failed to analyze video: " \o Described(message))
             /\ SpeechRejects(message)
                   => Shown("Failed to generate speech: " \o Described(message))
             /\ PlaygroundRejects(message)
                   => Shown("Failed to get response: " \o Described(message))
       /\ \A message \in ChatRejections :
             SendMessageRejects(message)
                => /\ messages' = Append(messages, [type |-> ERROR,
                                            text |-> "Failed to get a response: " \o message])
                   /\ ~chatIsLoading'
                   /\ chatPending' = <<>>
       /\ \A message \in Rejections :
             RequestRejects(message)
                => /\ videoError' # "null"
                   /\ ~videoIsLoading'
                   /\ videoPc' = "idle"
                   /\ timer' = Null
                   /\ requests' = requests
       /\ featureIsLoading' <=> featurePc' # "idle"
       /\ videoIsLoading' <=> videoPc' # "idle"
       /\ chatIsLoading' <=> chatPending' # <<>>]_vars

\* The speech feature shows the failure of its second call, the first one
\* having succeeded, and is idle.
C22_Witness ==
    /\ activeTab = "tts"
    /\ featureError = "Failed to generate speech: Unknown error."
    /\ ~featureIsLoading
    /\ featurePc = "idle"
    /\ calls = 2

\* The operations in flight that have called incrementLoading: those of
\* unmounted features, that of the mounted feature, that of the video feature.
InFlight ==
    orphans + (IF UsesLoading(activeTab) /\ featurePc # "idle" THEN 1 ELSE 0)
            + (IF videoPc # "idle" THEN 1 ELSE 0)

\* C24: every incrementLoading is matched by exactly one decrementLoading, so
\* the counter is the number of operations in flight and the loading bar is
\* shown exactly while one is.
C24_CounterIsInFlight ==
    /\ activeRequests = InFlight
    /\ LoadingBar # "null" <=> InFlight > 0

\* The maps search returned early from 0: the call of decrementLoading of its
\* finally block found the counter at 0.
EarlyReturn == handleGroundingSearch(TRUE) /\ searchType = "maps" /\ ~userLocation

\* C25: activeRequests is never below 0, a call of decrementLoading at 0
\* leaves it at 0, and isLoading, on which the loading bar depends, is true
\* exactly when activeRequests is above 0.
C25_CounterClamped ==
    [][/\ activeRequests' >= 0
       /\ (EarlyReturn /\ activeRequests = 0) => activeRequests' = 0
       /\ (OrphanSettles /\ activeRequests = 0) => activeRequests' = 0
       /\ isLoading' <=> activeRequests' > 0
       /\ LoadingBar' = "null" <=> activeRequests' = 0]_vars

\* The maps search has returned early with nothing else in flight.
C25_Witness ==
    /\ activeTab = "grounding"
    /\ featureError = NO_LOCATION
    /\ activeRequests = 0
    /\ orphans = 0
    /\ calls = 0

====
